---- MODULE Spec2Model ----
(***************************************************************************)
(* ArchAI Studio session controller (src/App.tsx), the Enhance tab editor  *)
(* (src/unnamed/part_000, EnhanceTab) and the providers' retry wrapper     *)
(* (src/services/geminiService.ts, src/services/openaiService.ts).         *)
(*                                                                         *)
(* Ten specifications share the handlers defined below:                    *)
(*   SpecHistory  the session operations on the base image and the undo    *)
(*                history, with the history free to fill to its capacity;  *)
(*   SpecChain    a run of uploads followed by a run of undos, with the    *)
(*                uploads logged;                                          *)
(*   Spec         the controller with its asynchronous generate/edit calls *)
(*                and the delayed regenerate;                              *)
(*   SpecRetry    one invocation of withRetry;                             *)
(*   SpecService  one call of a provider's service function, from its      *)
(*                checks before the request to its handling of the reply;  *)
(*   SpecMask     the mask canvas of the Enhance tab: strokes, clearing    *)
(*                and the mask derived at submit;                          *)
(*   SpecEdit     the controller together with the Enhance tab's controls, *)
(*                from an edit to its result and its regeneration;         *)
(*   SpecRequest  the request a provider builds for a generate or an edit; *)
(*   SpecCanvas   the Enhance tab used while an edit is pending: strokes,  *)
(*                brush size, resize, uploads and the result stored;       *)
(*   SpecOperation one generate or edit from handleApiCall through the     *)
(*                provider's function and withRetry to its end, under      *)
(*                weak fairness of the runtime's steps.                    *)
(***************************************************************************)
EXTENDS Naturals, Sequences, FiniteSets

\* ------------------------------------------------------------------ values

\* null (an absent ImageFile, an absent message)
Null == "null"

\* ImageFile values: what matters of an ImageFile is its base64 payload
Images == {"a", "b"}

MAX_UNDO_STEPS == 10

\* A mask ImageFile | null: the bitmap its PNG encodes, one <<R, G, B, A>> per
\* pixel, row by row; present is FALSE for null
Mask(width, height, data) ==
  [present |-> TRUE, width |-> width, height |-> height, data |-> data]

NoMask == [present |-> FALSE, width |-> 0, height |-> 0, data |-> <<>>]

\* The arguments of handleCreateGenerate (prompt, style, resolution) and of
\* handleEnhanceProcess (prompt, style, intensity, overlay, mask); an overlay
\* ImageFile is its base64 payload, 0 stands for no intensity
Args(prompt, style, resolution, level, overlay, mask) ==
  [prompt |-> prompt, style |-> style, resolution |-> resolution,
   intensity |-> level, overlay |-> overlay, mask |-> mask]

\* file?.base64 || null
Base64OrNull(file) == IF file = Null \/ file = "" THEN Null ELSE file

\* GeneratedOutput | null
NoOutput ==
  [type |-> "none", prompt |-> Null, style |-> Null, resolution |-> Null,
   inputImage |-> Null, outputImage |-> Null, overlayImage |-> Null,
   maskImage |-> NoMask, intensity |-> 0]

\* The result the onSuccess of handleCreateGenerate (type 'create') or of
\* handleEnhanceProcess (type 'enhance') builds from the arguments args of
\* the handler, the base image input and the image returned
GeneratedOutput(type, args, input, output) ==
  IF type = "create"
  THEN [type |-> "create", prompt |-> args.prompt, style |-> args.style,
        resolution |-> args.resolution, inputImage |-> Null,
        outputImage |-> output, overlayImage |-> Null, maskImage |-> NoMask,
        intensity |-> 0]
  ELSE [type |-> "enhance", prompt |-> args.prompt, style |-> args.style,
        resolution |-> Null, inputImage |-> input, outputImage |-> output,
        overlayImage |-> Base64OrNull(args.overlay),
        maskImage |-> args.mask, intensity |-> args.intensity]

Min(a, b) == IF a < b THEN a ELSE b

\* Array.prototype.slice(0, n)
Slice0(s, n) == SubSeq(s, 1, Min(n, Len(s)))

\* ------------------------------------------------------------------- state

VARIABLES
  view,               \* 'create' | 'enhance'
  isLoading,
  error,              \* the message shown, or Null
  currentUser,        \* TRUE: an approved user is signed in
  inputImage,         \* the base image, or Null
  overlayImage,
  undoHistory,        \* most recent first
  generatedOutput,    \* the single result slot
  isResultModalOpen,
  mode,               \* EnhanceTab: 'enhance' | 'edit'
  enhanceStyle,       \* EnhanceTab: the selected key of ENHANCE_STYLE_OPTIONS
  editPrompt,         \* EnhanceTab: the editing instructions
  intensity,          \* EnhanceTab: the intensity slider
  brushSize,          \* EnhanceTab: the brush slider
  isDrawing,          \* EnhanceTab: a stroke is under way
  canvas,             \* EnhanceTab: the drawing canvas over the base image
  calls,              \* the generate/edit calls handleApiCall awaits, oldest first
  timers,             \* regenerate callbacks waiting for their 300 ms, oldest first
  uploaded,           \* SpecChain: the images uploaded, in upload order
  base0,              \* SpecChain: the base image before the first upload
  undone,             \* SpecChain: the undos made after the uploads
  atUndo,             \* SpecChain: [base, history] when the last undo began
  service,            \* SpecRetry: the service file whose withRetry runs
  plan,               \* SpecRetry: what fn does at its 1st, 2nd, ... invocation
  attempt,            \* SpecRetry: withRetry's attempt counter
  rpc,                \* SpecRetry: where withRetry stands
  invocations,        \* SpecRetry: the invocations of fn made
  waits,              \* SpecRetry: the delays awaited, in order
  outcome,            \* SpecRetry: what withRetry returned or threw
  op,                 \* SpecService: the service function called and its request
  result              \* SpecService: what the service function returned or threw

sessionVars == <<view, isLoading, error, currentUser, inputImage, overlayImage,
                 undoHistory, generatedOutput, isResultModalOpen>>
editorVars == <<mode, enhanceStyle, editPrompt, intensity, brushSize, isDrawing, canvas>>
asyncVars == <<calls, timers>>
chainVars == <<uploaded, base0, undone, atUndo>>
retryVars == <<service, plan, attempt, rpc, invocations, waits, outcome>>
serviceVars == <<op, result>>
vars == <<sessionVars, editorVars, asyncVars, chainVars, retryVars, serviceVars>>

\* The variables a specification does not use
IdleAsync == calls = <<>> /\ timers = <<>>
IdleChain == uploaded = <<>> /\ base0 = Null /\ undone = 0 /\ atUndo = <<>>
IdleRetry == /\ service = Null /\ plan = <<>> /\ attempt = 0 /\ rpc = "idle"
             /\ invocations = 0 /\ waits = <<>> /\ outcome = Null
IdleService == op = Null /\ result = Null

\* ------------------------------------------------- App.tsx: undo history

\* addImageToUndoHistory without the slice
addImageToUndoHistory_NoSlice(image, prev) ==
  IF image = Null THEN prev ELSE <<image>> \o prev

\* addImageToUndoHistory: the history after the updater ran on prev
addImageToUndoHistory(image, prev) ==
  IF image = Null THEN prev
  ELSE LET newHistory == <<image>> \o prev
       IN IF Len(newHistory) > MAX_UNDO_STEPS
          THEN Slice0(newHistory, MAX_UNDO_STEPS) ELSE newHistory

\* handleSetInputImage pushing only when an image replaces an image
handleSetInputImage_PushOnReplaceOnly(file) ==
  /\ undoHistory' = IF file = Null THEN undoHistory
                    ELSE addImageToUndoHistory(inputImage, undoHistory)
  /\ inputImage' = file
  /\ overlayImage' = Null

handleSetInputImage(file) ==
  /\ undoHistory' = addImageToUndoHistory(inputImage, undoHistory)
  /\ inputImage' = file
  /\ overlayImage' = Null

\* handleUndo restoring the oldest entry
handleUndo_Oldest ==
  IF Len(undoHistory) > 0
  THEN /\ inputImage' = undoHistory[Len(undoHistory)]
       /\ undoHistory' = SubSeq(undoHistory, 1, Len(undoHistory) - 1)
       /\ overlayImage' = Null
  ELSE UNCHANGED <<inputImage, undoHistory, overlayImage>>

\* handleUndo leaving the overlay in place
handleUndo_KeepsOverlay ==
  IF Len(undoHistory) > 0
  THEN /\ inputImage' = Head(undoHistory)
       /\ undoHistory' = Tail(undoHistory)
       /\ overlayImage' = overlayImage
  ELSE UNCHANGED <<inputImage, undoHistory, overlayImage>>

handleUndo ==
  IF Len(undoHistory) > 0
  THEN /\ inputImage' = Head(undoHistory)
       /\ undoHistory' = Tail(undoHistory)
       /\ overlayImage' = Null
  ELSE UNCHANGED <<inputImage, undoHistory, overlayImage>>

\* handleContinueEditing without the push
handleContinueEditing_NoPush ==
  IF generatedOutput # NoOutput /\ generatedOutput.outputImage # Null
  THEN /\ undoHistory' = undoHistory
       /\ inputImage' = generatedOutput.outputImage
       /\ overlayImage' = Null
       /\ view' = "enhance"
       /\ isResultModalOpen' = FALSE
  ELSE UNCHANGED <<undoHistory, inputImage, overlayImage, view, isResultModalOpen>>

handleContinueEditing ==
  IF generatedOutput # NoOutput /\ generatedOutput.outputImage # Null
  THEN /\ undoHistory' = addImageToUndoHistory(inputImage, undoHistory)
       /\ inputImage' = generatedOutput.outputImage
       /\ overlayImage' = Null
       /\ view' = "enhance"
       /\ isResultModalOpen' = FALSE
  ELSE UNCHANGED <<undoHistory, inputImage, overlayImage, view, isResultModalOpen>>

\* handleSendToEnhance keeping the history, as handleContinueEditing does
handleSendToEnhance_KeepHistory ==
  IF generatedOutput # NoOutput /\ generatedOutput.type = "create"
     /\ generatedOutput.outputImage # Null
  THEN /\ inputImage' = generatedOutput.outputImage
       /\ undoHistory' = addImageToUndoHistory(inputImage, undoHistory)
       /\ overlayImage' = Null
       /\ view' = "enhance"
       /\ isResultModalOpen' = FALSE
  ELSE UNCHANGED <<undoHistory, inputImage, overlayImage, view, isResultModalOpen>>

handleSendToEnhance ==
  IF generatedOutput # NoOutput /\ generatedOutput.type = "create"
     /\ generatedOutput.outputImage # Null
  THEN /\ inputImage' = generatedOutput.outputImage
       /\ undoHistory' = <<>>
       /\ overlayImage' = Null
       /\ view' = "enhance"
       /\ isResultModalOpen' = FALSE
  ELSE UNCHANGED <<undoHistory, inputImage, overlayImage, view, isResultModalOpen>>

\* EnhanceTab handleImageUpload: clearMask() (the canvas, see the actions),
\* then setInputImage(file)
handleImageUpload(file) == handleSetInputImage(file)

\* ------------------------------------------------- EnhanceTab: the editor

\* ENHANCE_STYLE_OPTIONS, two of its entries: the first key and another
ENHANCE_STYLE_OPTIONS ==
  [k \in {"Standard Clarity", "Golden Hour"} |->
     IF k = "Standard Clarity"
     THEN "Apply standard photorealistic clarity and sharpness."
     ELSE "Bathe the scene in warm, golden hour light with long, soft shadows."]

\* The alpha values a canvas pixel takes: untouched, the faintest trace of an
\* anti-aliased edge, opaque after repeated strokes
Alphas == {0, 1, 255}

\* canvasRef.current: mounted is FALSE while no canvas element is rendered;
\* data holds the alpha of each pixel, row by row
Canvas(width, height, data) ==
  [mounted |-> TRUE, width |-> width, height |-> height, data |-> data]

NoCanvas == [mounted |-> FALSE, width |-> 0, height |-> 0, data |-> <<>>]

\* A canvas whose width or height was just assigned, or cleared: transparent
BlankCanvas(width, height) ==
  Canvas(width, height, [i \in 1..(width * height) |-> 0])

\* image.clientWidth and image.clientHeight of the displayed base image
ImageClientSize == [width |-> 2, height |-> 1]

\* clearMask: context.clearRect over the whole canvas, if there is one
clearMask(c) == IF ~c.mounted THEN c ELSE BlankCanvas(c.width, c.height)

\* The canvas effect leaving the strokes of a canvas that has some
canvasEffect_KeepsStrokes(c) ==
  IF c.mounted
  THEN c
  ELSE clearMask(BlankCanvas(ImageClientSize.width, ImageClientSize.height))

\* The canvas effect: setCanvasDimensions(), then clearMask()
canvasEffect(c) == clearMask(BlankCanvas(ImageClientSize.width, ImageClientSize.height))

\* EnhanceTab's state as useState initialises it
EditorDefaults ==
  [mode |-> "enhance", enhanceStyle |-> "Standard Clarity", editPrompt |-> "",
   intensity |-> 50, brushSize |-> 40, isDrawing |-> FALSE]

\* EnhanceTab freshly mounted (shown) or not rendered, over base image input
EditorFresh(shown, input) ==
  /\ mode = EditorDefaults.mode
  /\ enhanceStyle = EditorDefaults.enhanceStyle
  /\ editPrompt = EditorDefaults.editPrompt
  /\ intensity = EditorDefaults.intensity
  /\ brushSize = EditorDefaults.brushSize
  /\ isDrawing = EditorDefaults.isDrawing
  /\ canvas = IF shown /\ input # Null THEN canvasEffect(NoCanvas) ELSE NoCanvas

\* The editor after the render that follows a handler which left the canvas
\* as c: EnhanceTab is rendered for a signed-in user in the 'enhance' view and
\* loses its state when it is not; the canvas element exists while a base
\* image is shown; the canvas effect runs when the canvas is new and when
\* inputImage was set (setsBase)
EditorAfterRender(c, setsBase) ==
  LET shown == currentUser' /\ view' = "enhance"
      kept == shown /\ currentUser /\ view = "enhance"
  IN /\ IF kept
        THEN UNCHANGED <<mode, enhanceStyle, editPrompt, intensity, brushSize, isDrawing>>
        ELSE /\ mode' = EditorDefaults.mode
             /\ enhanceStyle' = EditorDefaults.enhanceStyle
             /\ editPrompt' = EditorDefaults.editPrompt
             /\ intensity' = EditorDefaults.intensity
             /\ brushSize' = EditorDefaults.brushSize
             /\ isDrawing' = EditorDefaults.isDrawing
     /\ canvas' = IF ~shown \/ inputImage' = Null THEN NoCanvas
                  ELSE IF ~kept \/ ~c.mounted \/ setsBase THEN canvasEffect(c)
                  ELSE c

\* ------------------------------------------------------- what is on screen

\* App.tsx renders EnhanceTab only for a signed-in user in the 'enhance' view
EnhanceTabShown == currentUser /\ view = "enhance"

CreateTabShown == currentUser /\ view = "create"

\* ResultViewerModal renders only when open and holding a result
ModalShown == isResultModalOpen /\ generatedOutput # NoOutput

\* ResultViewerModal: isEnhance = type === 'enhance' && inputImage
isEnhance == generatedOutput.type = "enhance" /\ generatedOutput.inputImage # Null

\* ------------------------------------------------------ the user's actions

\* The header's Create and Enhance / Edit buttons
SetView(v) ==
  /\ view' = v
  /\ UNCHANGED <<isLoading, error, currentUser, inputImage, overlayImage,
                 undoHistory, generatedOutput, isResultModalOpen>>
  /\ UNCHANGED <<asyncVars, chainVars, retryVars, serviceVars>>
  /\ EditorAfterRender(canvas, FALSE)

\* A file chosen in the upload area or through Change, and read
UploadBaseImage(file) ==
  /\ EnhanceTabShown
  /\ handleImageUpload(file)
  /\ UNCHANGED <<view, isLoading, error, currentUser, generatedOutput, isResultModalOpen>>
  /\ UNCHANGED <<asyncVars, chainVars, retryVars, serviceVars>>
  /\ EditorAfterRender(clearMask(canvas), TRUE)

\* The X button over the base image
RemoveBaseImage ==
  /\ EnhanceTabShown
  /\ inputImage # Null
  /\ handleImageUpload(Null)
  /\ UNCHANGED <<view, isLoading, error, currentUser, generatedOutput, isResultModalOpen>>
  /\ UNCHANGED <<asyncVars, chainVars, retryVars, serviceVars>>
  /\ EditorAfterRender(clearMask(canvas), TRUE)

\* handleFileSelect's catch: a file chosen through Change cannot be read
FileReadFails ==
  /\ EnhanceTabShown
  /\ inputImage # Null
  /\ handleImageUpload(Null)
  /\ error' = "Failed to read the image file."
  /\ UNCHANGED <<view, isLoading, currentUser, generatedOutput, isResultModalOpen>>
  /\ UNCHANGED <<asyncVars, chainVars, retryVars, serviceVars>>
  /\ EditorAfterRender(clearMask(canvas), TRUE)

\* ImageUpload's catch: a file dropped on the empty upload area cannot be read
UploadAreaReadFails ==
  /\ EnhanceTabShown
  /\ inputImage = Null
  /\ handleImageUpload(Null)
  /\ UNCHANGED <<view, isLoading, error, currentUser, generatedOutput, isResultModalOpen>>
  /\ UNCHANGED <<asyncVars, chainVars, retryVars, serviceVars>>
  /\ EditorAfterRender(clearMask(canvas), TRUE)

\* The Undo button, disabled when the history is empty or a call is loading
Undo ==
  /\ EnhanceTabShown
  /\ Len(undoHistory) # 0 /\ ~isLoading
  /\ handleUndo
  /\ UNCHANGED <<view, isLoading, error, currentUser, generatedOutput, isResultModalOpen>>
  /\ UNCHANGED <<asyncVars, chainVars, retryVars, serviceVars>>
  /\ EditorAfterRender(canvas, Len(undoHistory) > 0)

\* handleUndo run over an empty history, which the disabled Undo button
\* keeps the user from doing
UndoOnEmpty ==
  /\ EnhanceTabShown
  /\ Len(undoHistory) = 0
  /\ handleUndo
  /\ UNCHANGED <<view, isLoading, error, currentUser, generatedOutput, isResultModalOpen>>
  /\ UNCHANGED <<asyncVars, chainVars, retryVars, serviceVars>>
  /\ EditorAfterRender(canvas, Len(undoHistory) > 0)

\* MessageBox onDismiss
DismissError ==
  /\ error # Null
  /\ error' = Null
  /\ UNCHANGED <<view, isLoading, currentUser, inputImage, overlayImage,
                 undoHistory, generatedOutput, isResultModalOpen>>
  /\ UNCHANGED <<asyncVars, chainVars, retryVars, serviceVars, editorVars>>

\* Closing the modal discarding the result it showed
CloseModal_DropsResult ==
  /\ ModalShown
  /\ isResultModalOpen' = FALSE
  /\ generatedOutput' = NoOutput
  /\ UNCHANGED <<view, isLoading, error, currentUser, inputImage, overlayImage,
                 undoHistory>>
  /\ UNCHANGED <<asyncVars, chainVars, retryVars, serviceVars, editorVars>>

\* The modal's X or backdrop
CloseModal ==
  /\ ModalShown
  /\ isResultModalOpen' = FALSE
  /\ UNCHANGED <<view, isLoading, error, currentUser, inputImage, overlayImage,
                 undoHistory, generatedOutput>>
  /\ UNCHANGED <<asyncVars, chainVars, retryVars, serviceVars, editorVars>>

\* LastResultPreview, rendered while the modal is closed and a result is held
OpenModal ==
  /\ ~isResultModalOpen
  /\ generatedOutput # NoOutput
  /\ isResultModalOpen' = TRUE
  /\ UNCHANGED <<view, isLoading, error, currentUser, inputImage, overlayImage,
                 undoHistory, generatedOutput>>
  /\ UNCHANGED <<asyncVars, chainVars, retryVars, serviceVars, editorVars>>

\* The modal's Continue Editing with Result button, shown for isEnhance
ContinueEditing ==
  /\ ModalShown
  /\ isEnhance
  /\ handleContinueEditing
  /\ UNCHANGED <<isLoading, error, currentUser, generatedOutput>>
  /\ UNCHANGED <<asyncVars, chainVars, retryVars, serviceVars>>
  /\ EditorAfterRender(canvas, generatedOutput.outputImage # Null)

\* The modal's Send to Enhance / Edit button, shown for a create result
SendToEnhance ==
  /\ ModalShown
  /\ generatedOutput.type = "create"
  /\ handleSendToEnhance
  /\ UNCHANGED <<isLoading, error, currentUser, generatedOutput>>
  /\ UNCHANGED <<asyncVars, chainVars, retryVars, serviceVars>>
  /\ EditorAfterRender(canvas, generatedOutput.outputImage # Null)

\* ------------------------------------------- App.tsx: generate/edit calls

\* handleApiCall's two messages for a call that is not let through, and the
\* message of an Error the awaited apiCall() rejected with
SignInRequired == "You must be signed in to perform this action."

ProviderError == "provider error"

NotApproved == "Your account does not have permission to access ArchAI Studio. Please contact the administrator."

\* A call handleApiCall awaits: the kind of result its onSuccess stores, the
\* inputImage its closure holds (Null for a create call), the arguments the
\* handler was given, and whether no call was started after it
Call(type, base, args) ==
  [type |-> type, base |-> base, args |-> args, latest |-> TRUE]

\* Array.prototype.filter((_, j) => j !== i)
RemoveAt(s, i) == SubSeq(s, 1, i - 1) \o SubSeq(s, i + 1, Len(s))

\* handleApiCall as a handler rendered with user u runs it, up to its await
handleApiCall(u, type, base, args) ==
  IF ~u
  THEN /\ error' = SignInRequired
       /\ UNCHANGED <<isLoading, calls>>
  ELSE /\ isLoading' = TRUE
       /\ error' = Null
       /\ calls' = Append([i \in 1..Len(calls) |-> [calls[i] EXCEPT !.latest = FALSE]],
                          Call(type, base, args))

\* handleCreateGenerate of a render with user u
handleCreateGenerate(u, prompt, style, resolution) ==
  handleApiCall(u, "create", Null, Args(prompt, style, resolution, 0, Null, NoMask))

\* handleEnhanceProcess of a render with user u and base image base
handleEnhanceProcess(u, base, prompt, style, level, overlay, mask) ==
  IF base = Null
  THEN UNCHANGED <<isLoading, error, calls>>
  ELSE handleApiCall(u, "enhance", base,
                     Args(prompt, style, Null, level, overlay, mask))

\* isMaskEmpty: no pixel of the canvas has alpha > 0
isMaskEmpty(c) == \A i \in 1..Len(c.data) : ~(c.data[i] > 0)

White == <<255, 255, 255, 255>>

Black == <<0, 0, 0, 255>>

\* getMaskAsImageFile without the test of isMaskEmpty
getMaskAsImageFile_NoEmptyTest(c) ==
  IF ~c.mounted \/ c.width = 0 \/ c.height = 0 THEN NoMask
  ELSE Mask(c.width, c.height,
            [i \in 1..Len(c.data) |-> IF c.data[i] > 0 THEN White ELSE Black])

\* getMaskAsImageFile whitening only the pixels more than half opaque
getMaskAsImageFile_HalfOpaque(c) ==
  IF ~c.mounted \/ c.width = 0 \/ c.height = 0 THEN NoMask
  ELSE IF isMaskEmpty(c) THEN NoMask
  ELSE Mask(c.width, c.height,
            [i \in 1..Len(c.data) |-> IF c.data[i] > 127 THEN White ELSE Black])

\* getMaskAsImageFile: null without a canvas, for a canvas without area and
\* for one without coverage; else the bitmap of the canvas' size, white
\* where alpha > 0 and black elsewhere, opaque
getMaskAsImageFile(c) ==
  IF ~c.mounted \/ c.width = 0 \/ c.height = 0 THEN NoMask
  ELSE IF isMaskEmpty(c) THEN NoMask
  ELSE Mask(c.width, c.height,
            [i \in 1..Len(c.data) |-> IF c.data[i] > 0 THEN White ELSE Black])

\* handleProcess passing the slider's intensity in enhancement mode
handleProcess_SliderIntensity ==
  IF inputImage = Null
  THEN UNCHANGED <<isLoading, error, calls>>
  ELSE IF mode = "enhance"
  THEN handleEnhanceProcess(currentUser, inputImage,
                            ENHANCE_STYLE_OPTIONS[enhanceStyle], enhanceStyle,
                            intensity, Null, NoMask)
  ELSE IF editPrompt = ""
  THEN UNCHANGED <<isLoading, error, calls>>
  ELSE handleEnhanceProcess(currentUser, inputImage, editPrompt, "Guided Edit",
                            intensity, overlayImage, getMaskAsImageFile(canvas))

\* EnhanceTab handleProcess, onProcess being this render's handleEnhanceProcess
handleProcess ==
  IF inputImage = Null
  THEN UNCHANGED <<isLoading, error, calls>>
  ELSE IF mode = "enhance"
  THEN handleEnhanceProcess(currentUser, inputImage,
                            ENHANCE_STYLE_OPTIONS[enhanceStyle], enhanceStyle,
                            100, Null, NoMask)
  ELSE IF editPrompt = ""
  THEN UNCHANGED <<isLoading, error, calls>>
  ELSE handleEnhanceProcess(currentUser, inputImage, editPrompt, "Guided Edit",
                            intensity, overlayImage, getMaskAsImageFile(canvas))

\* onSuccess recording the base image shown when the call returns
handleApiCallResolved_CurrentBase(c, outputImage) ==
  /\ generatedOutput' = GeneratedOutput(c.type, c.args,
                                        IF c.type = "create" THEN Null ELSE inputImage,
                                        outputImage)
  /\ isResultModalOpen' = TRUE
  /\ isLoading' = FALSE
  /\ UNCHANGED error

\* handleApiCall after its await resolved: onSuccess(result), then finally
handleApiCallResolved(c, outputImage) ==
  /\ generatedOutput' = GeneratedOutput(c.type, c.args, c.base, outputImage)
  /\ isResultModalOpen' = TRUE
  /\ isLoading' = FALSE
  /\ UNCHANGED error

\* handleApiCall dropping the result held when a call fails
handleApiCallRejected_DropsResult(c) ==
  /\ error' = ProviderError
  /\ isLoading' = FALSE
  /\ generatedOutput' = NoOutput
  /\ isResultModalOpen' = FALSE

\* handleApiCall without its finally block when the call fails
handleApiCallRejected_NoFinally(c) ==
  /\ error' = ProviderError
  /\ UNCHANGED <<isLoading, generatedOutput, isResultModalOpen>>

\* handleApiCall after its await rejected: catch, then finally
handleApiCallRejected(c) ==
  /\ error' = ProviderError
  /\ isLoading' = FALSE
  /\ UNCHANGED <<generatedOutput, isResultModalOpen>>

\* handleRegenerate replaying over the input image the result recorded
handleRegenerate_RecordedBase ==
  IF generatedOutput = NoOutput
  THEN UNCHANGED <<isResultModalOpen, timers, isLoading, error, calls>>
  ELSE /\ isResultModalOpen' = FALSE
       /\ timers' = Append(timers, [output |-> generatedOutput,
                                    user |-> currentUser,
                                    base |-> generatedOutput.inputImage])
       /\ UNCHANGED <<isLoading, error, calls>>

\* handleRegenerate: the callback handed to setTimeout holds the result and
\* this render's handleCreateGenerate (which holds currentUser) and
\* handleEnhanceProcess (which holds currentUser and inputImage); it uses the
\* one that matches the result's type
handleRegenerate ==
  IF generatedOutput = NoOutput
  THEN UNCHANGED <<isResultModalOpen, timers, isLoading, error, calls>>
  ELSE /\ isResultModalOpen' = FALSE
       /\ timers' = Append(timers, [output |-> generatedOutput,
                                    user |-> currentUser,
                                    base |-> IF generatedOutput.type = "create"
                                             THEN Null ELSE inputImage])
       /\ UNCHANGED <<isLoading, error, calls>>

\* x || y for a number x
OrElse(x, y) == IF x = 0 THEN y ELSE x

\* value ? { base64: value, mimeType: 'image/png', name } : null
FileOrNull(value) == IF value = Null \/ value = "" THEN Null ELSE value

\* The callback replaying an edit at the default intensity
regenerateCallback_DefaultIntensity(t) ==
  IF t.output.type = "create"
  THEN handleCreateGenerate(t.user, t.output.prompt, t.output.style,
                            IF t.output.resolution = Null
                            THEN "1024x1024" ELSE t.output.resolution)
  ELSE handleEnhanceProcess(t.user, t.base, t.output.prompt, t.output.style,
                            50,
                            FileOrNull(t.output.overlayImage),
                            t.output.maskImage)

\* The callback handleRegenerate handed to setTimeout, t what it closes over
regenerateCallback(t) ==
  IF t.output.type = "create"
  THEN handleCreateGenerate(t.user, t.output.prompt, t.output.style,
                            IF t.output.resolution = Null
                            THEN "1024x1024" ELSE t.output.resolution)
  ELSE handleEnhanceProcess(t.user, t.base, t.output.prompt, t.output.style,
                            OrElse(t.output.intensity, 50),
                            FileOrNull(t.output.overlayImage),
                            t.output.maskImage)

\* The bounds of Spec: the calls awaited at once, the callbacks waiting at
\* once, and the history length up to which the pushing actions are taken
MaxCalls == 2

MaxTimers == 1

MaxHistory == 1

\* CreateTab's Generate Image button, disabled while loading
Generate(prompt, style, resolution) ==
  /\ CreateTabShown
  /\ ~isLoading /\ prompt # ""
  /\ Len(calls) < MaxCalls
  /\ handleCreateGenerate(currentUser, prompt, style, resolution)
  /\ UNCHANGED <<view, currentUser, inputImage, overlayImage, undoHistory,
                 generatedOutput, isResultModalOpen, timers>>
  /\ UNCHANGED <<chainVars, retryVars, serviceVars, editorVars>>

\* EnhanceTab's Process Image button, disabled while loading or without a
\* base image
Process ==
  /\ EnhanceTabShown
  /\ ~isLoading /\ inputImage # Null /\ ~(mode = "edit" /\ editPrompt = "")
  /\ Len(calls) < MaxCalls
  /\ handleProcess
  /\ UNCHANGED <<view, currentUser, inputImage, overlayImage, undoHistory,
                 generatedOutput, isResultModalOpen, timers>>
  /\ UNCHANGED <<chainVars, retryVars, serviceVars, editorVars>>

\* The modal's Regenerate (Redo) button
Regenerate ==
  /\ ModalShown
  /\ Len(timers) < MaxTimers
  /\ handleRegenerate
  /\ UNCHANGED <<view, currentUser, inputImage, overlayImage, undoHistory,
                 generatedOutput>>
  /\ UNCHANGED <<chainVars, retryVars, serviceVars, editorVars>>

\* The oldest waiting regenerate callback runs
TimerFires ==
  /\ timers # <<>>
  /\ Len(calls) < MaxCalls
  /\ regenerateCallback(Head(timers))
  /\ timers' = Tail(timers)
  /\ UNCHANGED <<view, currentUser, inputImage, overlayImage, undoHistory,
                 generatedOutput, isResultModalOpen>>
  /\ UNCHANGED <<chainVars, retryVars, serviceVars, editorVars>>

\* The provider call of calls[i] returns an image
CallSucceeds(i, outputImage) ==
  /\ i \in 1..Len(calls)
  /\ calls' = RemoveAt(calls, i)
  /\ handleApiCallResolved(calls[i], outputImage)
  /\ UNCHANGED <<view, currentUser, inputImage, overlayImage, undoHistory, timers>>
  /\ UNCHANGED <<chainVars, retryVars, serviceVars, editorVars>>

\* The provider call of calls[i] fails: before any request, or after its
\* retries
CallFails(i) ==
  /\ i \in 1..Len(calls)
  /\ calls' = RemoveAt(calls, i)
  /\ handleApiCallRejected(calls[i])
  /\ UNCHANGED <<view, currentUser, inputImage, overlayImage, undoHistory, timers>>
  /\ UNCHANGED <<chainVars, retryVars, serviceVars, editorVars>>

\* Signing out ending the session: base image, overlay, history and result
\* are dropped
SignOut_EndsSession ==
  /\ currentUser
  /\ error' = Null
  /\ currentUser' = FALSE
  /\ inputImage' = Null /\ overlayImage' = Null /\ undoHistory' = <<>>
  /\ generatedOutput' = NoOutput /\ isResultModalOpen' = FALSE
  /\ UNCHANGED <<view, isLoading>>
  /\ UNCHANGED <<asyncVars, chainVars, retryVars, serviceVars>>
  /\ EditorAfterRender(canvas, FALSE)

\* handleSignOut, and onAuthStateChanged reporting no user
SignOut ==
  /\ currentUser
  /\ error' = Null
  /\ currentUser' = FALSE
  /\ UNCHANGED <<view, isLoading, inputImage, overlayImage, undoHistory,
                 generatedOutput, isResultModalOpen>>
  /\ UNCHANGED <<asyncVars, chainVars, retryVars, serviceVars>>
  /\ EditorAfterRender(canvas, FALSE)

\* handleSignIn, and onAuthStateChanged finding the user in approved_users
\* (approved) or not
SignIn(approved) ==
  /\ ~currentUser
  /\ error' = IF approved THEN Null ELSE NotApproved
  /\ currentUser' = approved
  /\ UNCHANGED <<view, isLoading, inputImage, overlayImage, undoHistory,
                 generatedOutput, isResultModalOpen>>
  /\ UNCHANGED <<asyncVars, chainVars, retryVars, serviceVars>>
  /\ EditorAfterRender(canvas, FALSE)

\* ---------------------------------------------- EnhanceTab: the controls

Max(a, b) == IF a > b THEN a ELSE b

\* The Enhancement and Guided Edit buttons
SetMode(m) ==
  /\ EnhanceTabShown
  /\ mode' = m
  /\ UNCHANGED <<enhanceStyle, editPrompt, intensity, brushSize, isDrawing, canvas>>
  /\ UNCHANGED <<sessionVars, asyncVars, chainVars, retryVars, serviceVars>>

\* The Enhancement Style select, disabled while loading
SetEnhanceStyle(k) ==
  /\ EnhanceTabShown /\ mode = "enhance" /\ ~isLoading
  /\ enhanceStyle' = k
  /\ UNCHANGED <<mode, editPrompt, intensity, brushSize, isDrawing, canvas>>
  /\ UNCHANGED <<sessionVars, asyncVars, chainVars, retryVars, serviceVars>>

\* The Editing Instructions textarea, disabled while loading
SetEditPrompt(text) ==
  /\ EnhanceTabShown /\ mode = "edit" /\ ~isLoading
  /\ editPrompt' = text
  /\ UNCHANGED <<mode, enhanceStyle, intensity, brushSize, isDrawing, canvas>>
  /\ UNCHANGED <<sessionVars, asyncVars, chainVars, retryVars, serviceVars>>

\* The Modification Intensity slider (1..100), disabled while loading
SetIntensity(n) ==
  /\ EnhanceTabShown /\ mode = "edit" /\ ~isLoading
  /\ intensity' = n
  /\ UNCHANGED <<mode, enhanceStyle, editPrompt, brushSize, isDrawing, canvas>>
  /\ UNCHANGED <<sessionVars, asyncVars, chainVars, retryVars, serviceVars>>

\* The Brush Size slider (5..100); the canvas effect has brushSize among its
\* dependencies and runs again
SetBrushSize(n) ==
  /\ EnhanceTabShown /\ mode = "edit" /\ ~isLoading /\ inputImage # Null
  /\ n # brushSize
  /\ brushSize' = n
  /\ canvas' = IF canvas.mounted THEN canvasEffect(canvas) ELSE canvas
  /\ UNCHANGED <<mode, enhanceStyle, editPrompt, intensity, isDrawing>>
  /\ UNCHANGED <<sessionVars, asyncVars, chainVars, retryVars, serviceVars>>

\* The Overlay Object upload of Guided Edit: setOverlayImage(file)
SetOverlayImage(file) ==
  /\ EnhanceTabShown /\ mode = "edit"
  /\ overlayImage' = file
  /\ UNCHANGED <<view, isLoading, error, currentUser, inputImage, undoHistory,
                 generatedOutput, isResultModalOpen>>
  /\ UNCHANGED <<editorVars, asyncVars, chainVars, retryVars, serviceVars>>

\* The X over the overlay preview: setOverlayImage(null)
RemoveOverlayImage ==
  /\ EnhanceTabShown /\ mode = "edit" /\ overlayImage # Null
  /\ overlayImage' = Null
  /\ UNCHANGED <<view, isLoading, error, currentUser, inputImage, undoHistory,
                 generatedOutput, isResultModalOpen>>
  /\ UNCHANGED <<editorVars, asyncVars, chainVars, retryVars, serviceVars>>

\* The Clear Mask button
ClearMask ==
  /\ EnhanceTabShown /\ mode = "edit" /\ ~isLoading /\ inputImage # Null
  /\ canvas' = clearMask(canvas)
  /\ UNCHANGED <<mode, enhanceStyle, editPrompt, intensity, brushSize, isDrawing>>
  /\ UNCHANGED <<sessionVars, asyncVars, chainVars, retryVars, serviceVars>>

\* startDrawing: mouse down or touch start on the canvas
startDrawing ==
  /\ EnhanceTabShown /\ canvas.mounted
  /\ isDrawing' = IF mode # "edit" THEN isDrawing ELSE TRUE
  /\ UNCHANGED <<mode, enhanceStyle, editPrompt, intensity, brushSize, canvas>>
  /\ UNCHANGED <<sessionVars, asyncVars, chainVars, retryVars, serviceVars>>

\* draw without its test of the mode
draw_AnyMode(p, a) ==
  /\ EnhanceTabShown /\ canvas.mounted
  /\ p \in 1..Len(canvas.data)
  /\ canvas' = IF ~isDrawing THEN canvas
               ELSE [canvas EXCEPT !.data[p] = Max(@, a)]
  /\ UNCHANGED <<mode, enhanceStyle, editPrompt, intensity, brushSize, isDrawing>>
  /\ UNCHANGED <<sessionVars, asyncVars, chainVars, retryVars, serviceVars>>

\* draw: mouse or touch move on the canvas; lineTo and stroke() leave alpha a
\* on pixel p, over what was there
draw(p, a) ==
  /\ EnhanceTabShown /\ canvas.mounted
  /\ p \in 1..Len(canvas.data)
  /\ canvas' = IF ~isDrawing \/ mode # "edit" THEN canvas
               ELSE [canvas EXCEPT !.data[p] = Max(@, a)]
  /\ UNCHANGED <<mode, enhanceStyle, editPrompt, intensity, brushSize, isDrawing>>
  /\ UNCHANGED <<sessionVars, asyncVars, chainVars, retryVars, serviceVars>>

\* stopDrawing: mouse up, mouse leave or touch end
stopDrawing ==
  /\ EnhanceTabShown /\ canvas.mounted
  /\ isDrawing' = IF mode # "edit" THEN isDrawing ELSE FALSE
  /\ UNCHANGED <<mode, enhanceStyle, editPrompt, intensity, brushSize, canvas>>
  /\ UNCHANGED <<sessionVars, asyncVars, chainVars, retryVars, serviceVars>>

\* The window's resize listener: setCanvasDimensions assigns the canvas'
\* width and height, which empties it
WindowResize ==
  /\ EnhanceTabShown /\ canvas.mounted
  /\ canvas' = BlankCanvas(ImageClientSize.width, ImageClientSize.height)
  /\ UNCHANGED <<mode, enhanceStyle, editPrompt, intensity, brushSize, isDrawing>>
  /\ UNCHANGED <<sessionVars, asyncVars, chainVars, retryVars, serviceVars>>

\* ------------------------------------------------------------------- Spec

\* The images uploaded and the images the providers return in Spec
SpecUploads == {"a"}

SpecOutputs == {"a"}

\* What CreateTab's form holds when Generate Image is pressed in Spec
SpecCreateForms ==
  {[prompt |-> "p", style |-> "No predefined style", resolution |-> "1024x1024"]}

\* The pushing actions are taken while the history is shorter than MaxHistory
HistoryRoom == Len(undoHistory) < MaxHistory

\* App's initial state, once onAuthStateChanged has reported no user
Init ==
  /\ view = "create" /\ isLoading = FALSE /\ error = Null
  /\ currentUser = FALSE
  /\ inputImage = Null /\ overlayImage = Null /\ undoHistory = <<>>
  /\ generatedOutput = NoOutput /\ isResultModalOpen = FALSE
  /\ IdleAsync /\ IdleChain /\ IdleRetry /\ IdleService
  /\ EditorFresh(currentUser /\ view = "enhance", inputImage)

Next ==
  \/ \E approved \in BOOLEAN : SignIn(approved)
  \/ SignOut
  \/ \E v \in {"create", "enhance"} : SetView(v)
  \/ \E file \in SpecUploads : HistoryRoom /\ UploadBaseImage(file)
  \/ HistoryRoom /\ RemoveBaseImage
  \/ Undo
  \/ DismissError
  \/ CloseModal
  \/ OpenModal
  \/ HistoryRoom /\ ContinueEditing
  \/ SendToEnhance
  \/ \E f \in SpecCreateForms : Generate(f.prompt, f.style, f.resolution)
  \/ Process
  \/ Regenerate
  \/ TimerFires
  \/ \E i \in 1..Len(calls) : \E outputImage \in SpecOutputs : CallSucceeds(i, outputImage)
  \/ \E i \in 1..Len(calls) : CallFails(i)
  \/ \E m \in {"enhance", "edit"} : SetMode(m)
  \/ SetOverlayImage("o")

Spec == Init /\ [][Next]_vars

\* ------------------------------------------------------------- C6, C7, C8

\* A generate/edit call fails after handleApiCall let it through
FailingStep == \E i \in 1..Len(calls) : CallFails(i)

\* A regenerate callback is turned away by handleApiCall's sign-in check
DeniedStep ==
  /\ TimerFires
  /\ ~Head(timers).user
  /\ Head(timers).output.type = "enhance" => Head(timers).base # Null

\* C6: a failed generate/edit changes none of the undo history, the result
\* slot and the base image; a call that fails sets the message and clears the
\* loading flag, a call turned away at the sign-in check sets the message and
\* leaves the flag; no step of a regenerate that fails touches the result.
C6_FailureLeavesState ==
  [][/\ FailingStep
          => /\ UNCHANGED <<undoHistory, generatedOutput, inputImage>>
             /\ error' = ProviderError /\ isLoading' = FALSE
     /\ DeniedStep
          => /\ UNCHANGED <<undoHistory, generatedOutput, inputImage, isLoading, calls>>
             /\ error' = SignInRequired
     /\ (Regenerate \/ TimerFires) => UNCHANGED generatedOutput]_vars

\* C6 witness: a call has failed over a held result, a base image and a
\* non-empty history
C6_Witness ==
  /\ error = ProviderError /\ ~isLoading /\ calls = <<>>
  /\ generatedOutput # NoOutput
  /\ inputImage # Null /\ undoHistory # <<>>

\* C7 as claimed: at most one generate/edit call is awaited at any time.
C7_SingleFlight == Len(calls) <= 1

\* C8 as claimed: the loading flag is set exactly while a call is awaited, and
\* the result slot is written only by the completion of the call started last.
C8_OwnedSlots ==
  /\ [](isLoading <=> calls # <<>>)
  /\ [][\A i \in 1..Len(calls) : \A outputImage \in SpecOutputs :
          CallSucceeds(i, outputImage) => calls[i].latest]_vars

\* ------------------------------------------------------------ SpecHistory

\* A signed-in session with no call pending: just signed in, or holding the
\* result of a generate (Create view) or of an edit of the base image
InitHistory ==
  /\ isLoading = FALSE /\ error = Null /\ currentUser = TRUE
  /\ overlayImage = Null /\ undoHistory = <<>>
  /\ \/ /\ view = "create" /\ inputImage = Null
        /\ generatedOutput = NoOutput /\ isResultModalOpen = FALSE
     \/ /\ view = "create" /\ inputImage = Null
        /\ \E out \in Images :
             generatedOutput =
               GeneratedOutput("create",
                               Args("p", "No predefined style", "1024x1024", 0, Null, NoMask),
                               Null, out)
        /\ isResultModalOpen = TRUE
     \/ /\ view = "enhance" /\ inputImage = "a"
        /\ \E out \in Images :
             generatedOutput =
               GeneratedOutput("enhance",
                               Args(ENHANCE_STYLE_OPTIONS["Standard Clarity"],
                                    "Standard Clarity", Null, 100, Null, NoMask),
                               "a", out)
        /\ isResultModalOpen = TRUE
  /\ IdleAsync /\ IdleChain /\ IdleRetry /\ IdleService
  /\ EditorFresh(currentUser /\ view = "enhance", inputImage)

NextHistory ==
  \/ \E v \in {"create", "enhance"} : SetView(v)
  \/ \E file \in Images : UploadBaseImage(file)
  \/ RemoveBaseImage
  \/ FileReadFails
  \/ UploadAreaReadFails
  \/ Undo
  \/ DismissError
  \/ CloseModal
  \/ OpenModal
  \/ ContinueEditing
  \/ SendToEnhance

SpecHistory == InitHistory /\ [][NextHistory]_vars

\* -------------------------------------------------------------- SpecChain

\* The uploads a run of SpecChain makes
MaxUploads == 11

Reverse(s) == [i \in 1..Len(s) |-> s[Len(s) + 1 - i]]

\* The Enhance tab of a signed-in user, holding base0 or no base image, the
\* history empty
InitChain ==
  /\ view = "enhance" /\ isLoading = FALSE /\ error = Null /\ currentUser = TRUE
  /\ base0 \in Images \cup {Null}
  /\ inputImage = base0
  /\ overlayImage = Null /\ undoHistory = <<>>
  /\ generatedOutput = NoOutput /\ isResultModalOpen = FALSE
  /\ uploaded = <<>> /\ undone = 0 /\ atUndo = <<>>
  /\ IdleAsync /\ IdleRetry /\ IdleService
  /\ EditorFresh(currentUser /\ view = "enhance", inputImage)

\* One more upload, logged, while no undo has been made
ChainUpload(file) ==
  /\ undone = 0
  /\ Len(uploaded) < MaxUploads
  /\ EnhanceTabShown
  /\ handleImageUpload(file)
  /\ uploaded' = Append(uploaded, file)
  /\ UNCHANGED <<base0, undone, atUndo>>
  /\ UNCHANGED <<view, isLoading, error, currentUser, generatedOutput, isResultModalOpen>>
  /\ UNCHANGED <<asyncVars, retryVars, serviceVars>>
  /\ EditorAfterRender(clearMask(canvas), TRUE)

\* handleUndo invoked once more after the uploads, up to once more than there
\* were uploads, whether or not the Undo button is enabled
ChainUndo ==
  /\ Len(uploaded) >= 1
  /\ undone <= Len(uploaded)
  /\ EnhanceTabShown
  /\ handleUndo
  /\ undone' = undone + 1
  /\ atUndo' = <<inputImage, undoHistory>>
  /\ UNCHANGED <<uploaded, base0>>
  /\ UNCHANGED <<view, isLoading, error, currentUser, generatedOutput, isResultModalOpen>>
  /\ UNCHANGED <<asyncVars, retryVars, serviceVars>>
  /\ EditorAfterRender(canvas, Len(undoHistory) > 0)

NextChain ==
  \/ \E file \in Images : ChainUpload(file)
  \/ ChainUndo

SpecChain == InitChain /\ [][NextChain]_vars

\* ---------------------------------------------------------------------- C2

\* Every base image of the run, oldest first: base0 if any, then the uploads
Chain == (IF base0 = Null THEN <<>> ELSE <<base0>>) \o uploaded

\* The images before the most recent upload that one can walk back to
Earlier == Len(Chain) - 1

\* C2: after K uploads (1 <= K <= 10) onto an empty history, the j-th undo
\* shows the j-th image before the most recent upload, the history holding
\* the images before that one, most recent first; once the earliest image is
\* shown a further undo changes nothing, and the (K+1)-th undo is such a one.
C2_UndoWalksBack ==
  (Len(uploaded) \in 1..10 /\ undone >= 1)
    => LET back == Min(undone, Earlier)
       IN /\ inputImage = Chain[Len(Chain) - back]
          /\ undoHistory = Reverse(SubSeq(Chain, 1, Len(Chain) - back - 1))
          /\ undone > Earlier => <<inputImage, undoHistory>> = atUndo
          /\ undone = Len(uploaded) + 1
               => /\ undone > Earlier
                  /\ undoHistory = <<>> /\ inputImage = Chain[1]

\* C2 witness: 10 uploads over a base image, then 11 undos
C2_Witness ==
  /\ base0 = "a" /\ Len(uploaded) = 10 /\ undone = 11
  /\ uploaded[1] = "b" /\ uploaded[9] = "a" /\ uploaded[10] = "b"

\* After any number of uploads and no undo, the history holds the replaced
\* images, most recent first, cut to the 10 most recent
ChainHistoryIsRecentPushes ==
  undone = 0
    => LET pushed == Reverse(SubSeq(Chain, 1, Len(Chain) - 1))
       IN undoHistory = SubSeq(pushed, 1, Min(Len(pushed), MAX_UNDO_STEPS))

\* More than 10 pushes have been made
ChainEvicted == undone = 0 /\ Len(Chain) - 1 > MAX_UNDO_STEPS

\* -------------------------------------------- services: withRetry, SpecRetry

\* withRetry's default parameters
retries == 3

initialDelay == 1000

\* The Error thrown after the while loop
ExceededMaxRetries(svc) ==
  IF svc = "gemini" THEN "Exceeded max retries"
  ELSE "Exceeded max retries with OpenAI API."

\* What a settled fn() yields, and what withRetry yields
Resolved(value) == [kind |-> "return", value |-> value]
Rejected(err) == [kind |-> "throw", value |-> err]

\* What fn may do at one invocation
FnOutcomes == {Resolved("v1"), Resolved("v2"), Rejected("e1"), Rejected("e2")}

\* The delay without the doubling
RetryDelay_Constant(n) == initialDelay

\* initialDelay * Math.pow(2, attempt - 1), attempt already incremented to n
RetryDelay(n) == initialDelay * 2 ^ (n - 1)

\* The catch block giving up only once attempt exceeds retries
withRetryCatch_OffByOne(err) ==
  /\ attempt' = attempt + 1
  /\ IF attempt + 1 > retries
     THEN /\ outcome' = Rejected(err)
          /\ rpc' = "done"
          /\ UNCHANGED waits
     ELSE /\ waits' = Append(waits, RetryDelay(attempt + 1))
          /\ rpc' = "delay"
          /\ UNCHANGED outcome

\* withRetry's catch block, up to its await delay(...)
withRetryCatch(err) ==
  /\ attempt' = attempt + 1
  /\ IF attempt + 1 >= retries
     THEN /\ outcome' = Rejected(err)
          /\ rpc' = "done"
          /\ UNCHANGED waits
     ELSE /\ waits' = Append(waits, RetryDelay(attempt + 1))
          /\ rpc' = "delay"
          /\ UNCHANGED outcome

\* The while test: fn() is invoked, or the loop is left and the Error thrown
RetryLoop ==
  /\ rpc = "loop"
  /\ IF attempt < retries
     THEN /\ invocations' = invocations + 1
          /\ rpc' = "fn"
          /\ UNCHANGED outcome
     ELSE /\ outcome' = Rejected(ExceededMaxRetries(service))
          /\ rpc' = "done"
          /\ UNCHANGED invocations
  /\ UNCHANGED <<service, plan, attempt, waits>>
  /\ UNCHANGED <<sessionVars, asyncVars, chainVars, serviceVars, editorVars>>

\* fn() resolves: return await fn()
FnResolves ==
  /\ rpc = "fn"
  /\ plan[invocations].kind = "return"
  /\ outcome' = Resolved(plan[invocations].value)
  /\ rpc' = "done"
  /\ UNCHANGED <<service, plan, attempt, invocations, waits>>
  /\ UNCHANGED <<sessionVars, asyncVars, chainVars, serviceVars, editorVars>>

\* fn() rejects: the catch block runs
FnRejects ==
  /\ rpc = "fn"
  /\ plan[invocations].kind = "throw"
  /\ withRetryCatch(plan[invocations].value)
  /\ UNCHANGED <<service, plan, invocations>>
  /\ UNCHANGED <<sessionVars, asyncVars, chainVars, serviceVars, editorVars>>

\* The awaited delay elapses
DelayElapses ==
  /\ rpc = "delay"
  /\ rpc' = "loop"
  /\ UNCHANGED <<service, plan, attempt, invocations, waits, outcome>>
  /\ UNCHANGED <<sessionVars, asyncVars, chainVars, serviceVars, editorVars>>

\* The invocations of fn a plan covers: one more than withRetry may make
PlanLength == 4

\* withRetry(fn) entered with its defaults, fn's behaviour fixed by plan
InitRetry ==
  /\ service \in {"gemini", "openai"}
  /\ plan \in [1..PlanLength -> FnOutcomes]
  /\ attempt = 0 /\ rpc = "loop" /\ invocations = 0
  /\ waits = <<>> /\ outcome = Null
  /\ view = "create" /\ isLoading = FALSE /\ error = Null
  /\ currentUser = FALSE
  /\ inputImage = Null /\ overlayImage = Null /\ undoHistory = <<>>
  /\ generatedOutput = NoOutput /\ isResultModalOpen = FALSE
  /\ IdleAsync /\ IdleChain /\ IdleService
  /\ EditorFresh(currentUser /\ view = "enhance", inputImage)

NextRetry ==
  \/ RetryLoop
  \/ FnResolves
  \/ FnRejects
  \/ DelayElapses

SpecRetry == InitRetry /\ [][NextRetry]_vars

\* ------------------------------------------------------------------ C9, C10

Fails(i) == plan[i].kind = "throw"

\* C9: when fn fails twice and then succeeds, withRetry returns the third
\* invocation's value after 3 invocations and the waits 1000 and 2000, in that
\* order; when fn succeeds at once, withRetry returns its value after 1
\* invocation and no wait.
C9_RetryThenSuccess ==
  rpc = "done"
    => /\ (Fails(1) /\ Fails(2) /\ ~Fails(3))
            => /\ outcome = Resolved(plan[3].value)
               /\ invocations = 3
               /\ waits = <<1000, 2000>>
       /\ ~Fails(1)
            => /\ outcome = Resolved(plan[1].value)
               /\ invocations = 1
               /\ waits = <<>>

\* C9 witness: withRetry has returned after two failures and a success
C9_Witness ==
  /\ rpc = "done" /\ outcome.kind = "return"
  /\ Fails(1) /\ Fails(2) /\ ~Fails(3)
  /\ plan[1].value # plan[2].value

\* C10: when fn always fails, withRetry invokes it 3 times, waits twice and
\* throws the third invocation's error; it never throws the Error that
\* follows its loop.
C10_ExhaustedRethrows ==
  /\ rpc = "done"
       => /\ outcome # Rejected(ExceededMaxRetries(service))
          /\ (Fails(1) /\ Fails(2) /\ Fails(3))
               => /\ outcome = Rejected(plan[3].value)
                  /\ invocations = 3
                  /\ Len(waits) = 2
  /\ invocations <= 3 /\ Len(waits) <= 2

\* C10 witness: withRetry has thrown after three failures, the third unlike
\* the first two
C10_Witness ==
  /\ rpc = "done" /\ outcome.kind = "throw"
  /\ Fails(1) /\ Fails(2) /\ Fails(3)
  /\ plan[3].value # plan[1].value /\ plan[3].value # plan[2].value

\* ---------------------------------------------------------- C1, C3, C4, C5

\* A step that pushes: the base image is replaced or removed through
\* handleSetInputImage, or replaced by handleContinueEditing
PushingStep ==
  \/ \E file \in Images : UploadBaseImage(file)
  \/ RemoveBaseImage
  \/ FileReadFails
  \/ ContinueEditing

\* The history after a push of image onto prev, as the claims describe it:
\* image first, then prev in order, the oldest dropped beyond the capacity
IsPushOf(image, prev, new) ==
  /\ Len(new) = Min(Len(prev) + 1, MAX_UNDO_STEPS)
  /\ new[1] = image
  /\ \A i \in 2..Len(new) : new[i] = prev[i - 1]

\* C1: the undo history never holds more than 10 entries, and every push of
\* a present base image prepends it and drops the oldest entry beyond 10.
C1_HistoryBounded ==
  /\ [](Len(undoHistory) <= 10)
  /\ [][(PushingStep /\ inputImage # Null)
          => IsPushOf(inputImage, undoHistory, undoHistory')]_vars

\* C1 witness: the history is full and the next push must evict its tail
C1_Witness ==
  /\ Len(undoHistory) = 10
  /\ undoHistory[1] # undoHistory[10]
  /\ EnhanceTabShown /\ inputImage # Null

\* C3: sendToEnhance on a create result leaves the history empty and the
\* base image equal to the result's output image.
C3_SendToEnhanceResetsHistory ==
  [][SendToEnhance
       => /\ undoHistory' = <<>>
          /\ inputImage' = generatedOutput.outputImage]_vars

\* C3 witness: Send to Enhance is offered over a full history and a base image
C3_Witness ==
  /\ ModalShown /\ generatedOutput.type = "create"
  /\ Len(undoHistory) = 10
  /\ inputImage # Null /\ inputImage # generatedOutput.outputImage

\* C4 as claimed: continueEditing always leaves the history one entry longer,
\* the base image at its head.
C4_Original ==
  [][ContinueEditing
       => /\ Len(undoHistory') = Len(undoHistory) + 1
          /\ Head(undoHistory') = inputImage
          /\ Tail(undoHistory') = undoHistory
          /\ inputImage' = generatedOutput.outputImage]_vars

\* C4 amended: continueEditing sets the base image to the result's output
\* image; a present base image is pushed (length min(prior + 1, 10), the
\* oldest entry dropped from a full history), an absent one leaves the
\* history as it was.
C4_ContinueEditingPushes ==
  [][ContinueEditing
       => /\ inputImage' = generatedOutput.outputImage
          /\ IF inputImage = Null
             THEN undoHistory' = undoHistory
             ELSE IsPushOf(inputImage, undoHistory, undoHistory')]_vars

\* C4 witness: Continue Editing is offered over a full history
C4_Witness ==
  /\ ModalShown /\ isEnhance
  /\ Len(undoHistory) = 10 /\ undoHistory[1] # undoHistory[10]
  /\ inputImage # Null /\ inputImage # generatedOutput.outputImage

\* A step that removes the base image
RemovingStep == RemoveBaseImage \/ FileReadFails \/ UploadAreaReadFails

\* C5 as claimed: removing the base image leaves the history unchanged.
C5_Original ==
  [][RemovingStep => undoHistory' = undoHistory]_vars

\* C5 amended: removing a present base image pushes the removed image, as a
\* replacement does; the history is unchanged only when no base image was
\* present.
C5_RemovePushes ==
  [][RemovingStep
       => /\ inputImage' = Null
          /\ IF inputImage = Null
             THEN undoHistory' = undoHistory
             ELSE IsPushOf(inputImage, undoHistory, undoHistory')]_vars

\* C5 witness: the base image has been removed and heads the history
C5_Witness ==
  /\ inputImage = Null
  /\ Len(undoHistory) = 3
  /\ undoHistory[1] = "b" /\ undoHistory[2] = "a"
  /\ error = "Failed to read the image file."

\* ------------------------------------- services: the provider functions

\* The errors openaiService throws before any fetch
NotConfigured == "OpenAI API key is not configured."

OverlayUnsupported == "Overlay images are not supported by the OpenAI provider. Please remove the overlay image and try again."

MaskRequired == "The OpenAI provider requires a mask for image editing. Please use the 'Guided Edit' mode, draw on the image to create a mask, and provide instructions."

PreflightErrors == {NotConfigured, OverlayUnsupported, MaskRequired}

\* The error openaiService throws for a response whose ok is false
OpenAiApiError == "OpenAI API Error: failure status"

\* The error thrown for a response without image data
NoImageData(svc, name) ==
  IF svc = "gemini"
  THEN "No image data received from API. The request may have been blocked due to safety policies."
  ELSE IF name = "generateImageFromText"
       THEN "No image data received from OpenAI API."
       ELSE "No image data received from OpenAI API for editing."

\* What the function handed to withRetry does at one invocation.  fetch
\* rejects when the network fails and resolves with any response, ok or not;
\* ai.models.generateContent rejects when the network fails and when the API
\* answers with a failure status, and resolves with a response otherwise.
RequestOutcomes(svc) ==
  IF svc = "gemini"
  THEN {Rejected("network error"), Rejected("ApiError"), Resolved("ok")}
  ELSE {Rejected("network error"), Resolved("not ok"), Resolved("ok")}

\* What an ok response to generateImageFromText or editImage carries
ImageBodies == {"image", "no image"}

\* What an ok response to refineTextPrompt carries: the text (response.text,
\* choices[0]?.message?.content; Null when undefined), whether JSON.parse
\* accepts it, whether the parsed object has a suggestions array, and that
\* array
Content(text, valid, hasList, list) ==
  [text |-> text, valid |-> valid, hasList |-> hasList, list |-> list]

RefineContents ==
  { Content(Null, FALSE, FALSE, <<>>),
    Content("", FALSE, FALSE, <<>>),
    Content(" not json ", FALSE, FALSE, <<>>),
    Content("{}", TRUE, FALSE, <<>>),
    Content("{\"suggestions\":[]}", TRUE, TRUE, <<>>),
    Content("{\"suggestions\":[s1,s2]}", TRUE, TRUE, <<"s1", "s2">>),
    Content("{\"suggestions\":[s1,s2,s3,s4]}", TRUE, TRUE, <<"s1", "s2", "s3", "s4">>) }

\* String.prototype.trim on the texts above
Trim(text) == IF text = " not json " THEN "not json" ELSE text

\* return [text.trim()]: a TypeError when text is undefined
refineFallback(text) ==
  IF text = Null THEN Rejected("TypeError") ELSE Resolved(<<Trim(text)>>)

\* refineTextPrompt from the response on: the try block and its catch
refineTextPromptParse(svc, c) ==
  IF svc = "openai" /\ (c.text = Null \/ c.text = "")
  THEN refineFallback(c.text)
  ELSE IF ~c.valid
  THEN refineFallback(c.text)
  ELSE IF c.hasList /\ Len(c.list) > 0
  THEN Resolved(Slice0(c.list, 3))
  ELSE refineFallback(c.text)

\* openaiService.editImage testing the mask before the overlay
openaiEditImageChecks_MaskFirst(o) ==
  IF ~o.mask THEN MaskRequired
  ELSE IF o.overlay THEN OverlayUnsupported
  ELSE Null

\* openaiService.editImage: the tests of overlayImage and maskImage
openaiEditImageChecks(o) ==
  IF o.overlay THEN OverlayUnsupported
  ELSE IF ~o.mask THEN MaskRequired
  ELSE Null

\* What a service function throws before it calls withRetry, or Null.
\* geminiService tests nothing: an empty API_KEY is only warned about.
servicePreflight(svc, o) ==
  IF svc = "gemini" THEN Null
  ELSE IF ~o.hasKey THEN NotConfigured
  ELSE IF o.name = "editImage" THEN openaiEditImageChecks(o)
  ELSE Null

\* What a service function does with what withRetry returned or threw
serviceAfterRetry(svc, o, out) ==
  IF out.kind = "throw" THEN out
  ELSE IF out.value = "not ok" THEN Rejected(OpenAiApiError)
  ELSE IF o.name = "refineTextPrompt" THEN refineTextPromptParse(svc, o.body)
  ELSE IF o.body = "image" THEN Resolved("image data")
  ELSE Rejected(NoImageData(svc, o.name))

\* A service function is entered: it throws, or calls withRetry
ServiceEnter ==
  /\ rpc = "enter"
  /\ LET err == servicePreflight(service, op)
     IN IF err # Null
        THEN result' = Rejected(err) /\ rpc' = "settled"
        ELSE result' = result /\ rpc' = "loop"
  /\ UNCHANGED <<service, plan, attempt, invocations, waits, outcome, op>>
  /\ UNCHANGED <<sessionVars, asyncVars, chainVars, editorVars>>

\* withRetry has returned or thrown: the service function settles
ServiceReturn ==
  /\ rpc = "done"
  /\ result' = serviceAfterRetry(service, op, outcome)
  /\ rpc' = "settled"
  /\ UNCHANGED <<service, plan, attempt, invocations, waits, outcome, op>>
  /\ UNCHANGED <<sessionVars, asyncVars, chainVars, editorVars>>

\* The calls of the three service functions: whether the provider's key is
\* set, whether an overlay and a mask are passed, and what an ok response holds
ServiceCalls ==
  [name : {"generateImageFromText"}, hasKey : BOOLEAN,
   overlay : {FALSE}, mask : {FALSE}, body : ImageBodies]
  \cup [name : {"editImage"}, hasKey : BOOLEAN,
        overlay : BOOLEAN, mask : BOOLEAN, body : ImageBodies]
  \cup [name : {"refineTextPrompt"}, hasKey : BOOLEAN,
        overlay : {FALSE}, mask : {FALSE}, body : RefineContents]

\* One call of a service function; a request sent without a key meets a
\* failure status at every attempt
InitService ==
  /\ service \in {"gemini", "openai"}
  /\ op \in ServiceCalls
  /\ plan \in [1..PlanLength -> RequestOutcomes(service)]
  /\ ~op.hasKey =>
       \A i \in 1..PlanLength :
         plan[i] = IF service = "gemini" THEN Rejected("ApiError") ELSE Resolved("not ok")
  /\ attempt = 0 /\ rpc = "enter" /\ invocations = 0
  /\ waits = <<>> /\ outcome = Null /\ result = Null
  /\ view = "create" /\ isLoading = FALSE /\ error = Null
  /\ currentUser = FALSE
  /\ inputImage = Null /\ overlayImage = Null /\ undoHistory = <<>>
  /\ generatedOutput = NoOutput /\ isResultModalOpen = FALSE
  /\ IdleAsync /\ IdleChain
  /\ EditorFresh(currentUser /\ view = "enhance", inputImage)

NextService ==
  \/ ServiceEnter
  \/ RetryLoop
  \/ FnResolves
  \/ FnRejects
  \/ DelayElapses
  \/ ServiceReturn

SpecService == InitService /\ [][NextService]_vars

\* ------------------------------------------------- C11, C12, C13, C19

\* The service function has thrown an error that came from the remote call
RemoteFailure ==
  /\ rpc = "settled" /\ result.kind = "throw"
  /\ result.value \notin PreflightErrors \cup {"TypeError"}

\* C11 as claimed: every failure of the remote call, a failure status and a
\* response without image data included, is surfaced only after 3 attempts
\* and 2 backoff waits.
C11_FailuresRetried ==
  RemoteFailure => invocations = 3 /\ waits = <<1000, 2000>>

\* What does hold: a rejection of the request itself is surfaced after 3
\* attempts, and an error thrown for a response is surfaced after the attempt
\* that received it, with no retry.
RetriedFailuresOnly ==
  RemoteFailure
    => IF result.value \in {"network error", "ApiError"}
       THEN invocations = 3 /\ waits = <<1000, 2000>>
       ELSE /\ result.value \in {OpenAiApiError, NoImageData(service, op.name)}
            /\ outcome.kind = "return"
            /\ ~Fails(invocations)

\* A failure status has been surfaced by openaiService after one attempt
UnretriedStatus ==
  /\ rpc = "settled" /\ service = "openai"
  /\ result = Rejected(OpenAiApiError) /\ invocations = 1

\* C12 as claimed: without its key a provider's function fails with the
\* "not configured" error and no remote attempt.
C12_NoKeyNoRequest ==
  (rpc = "settled" /\ ~op.hasKey)
    => /\ invocations = 0 /\ waits = <<>>
       /\ result = Rejected(NotConfigured)

\* What does hold: openaiService without its key throws NotConfigured before
\* any fetch, for each of its three functions
OpenAiNoKeyNoRequest ==
  (service = "openai" /\ ~op.hasKey)
    => /\ invocations = 0 /\ waits = <<>>
       /\ rpc = "settled" => result = Rejected(NotConfigured)

\* openaiService.refineTextPrompt has been turned away for its missing key
OpenAiNoKeySettled ==
  /\ rpc = "settled" /\ service = "openai" /\ ~op.hasKey
  /\ op.name = "refineTextPrompt"

\* C13: openaiService.editImage given an overlay makes no fetch, with or
\* without a mask, and throws; with the key set the error is the one naming
\* the unsupported overlay.
C13_OverlayUnsupported ==
  (service = "openai" /\ op.name = "editImage" /\ op.overlay)
    => /\ invocations = 0 /\ waits = <<>>
       /\ rpc = "settled"
            => /\ result.kind = "throw"
               /\ op.hasKey => result = Rejected(OverlayUnsupported)

\* C13 witness: an edit with an overlay and no mask has been turned away
C13_Witness ==
  /\ rpc = "settled" /\ service = "openai" /\ op.name = "editImage"
  /\ op.hasKey /\ op.overlay /\ ~op.mask
  /\ result = Rejected(OverlayUnsupported)

\* refineTextPrompt has settled after an ok response
RefinedOk ==
  /\ rpc = "settled" /\ op.name = "refineTextPrompt"
  /\ invocations > 0 /\ plan[invocations] = Resolved("ok")

\* C19 as claimed: after an ok response refineTextPrompt returns: the first
\* up to 3 suggestions when the content parses to a non-empty list, and
\* otherwise the one-element list of the raw text.
C19_RefineNeverFails ==
  RefinedOk
    => /\ result.kind = "return"
       /\ IF op.body.valid /\ op.body.hasList /\ op.body.list # <<>>
          THEN result.value = Slice0(op.body.list, 3)
          ELSE Len(result.value) = 1

\* What does hold: the same whenever the response has a text
RefineWithText ==
  (RefinedOk /\ op.body.text # Null)
    => /\ result.kind = "return"
       /\ IF op.body.valid /\ op.body.hasList /\ op.body.list # <<>>
             /\ ~(service = "openai" /\ op.body.text = "")
          THEN result.value = Slice0(op.body.list, 3)
          ELSE result.value = <<Trim(op.body.text)>>

\* ---------------------------------------------------------------------- C20

\* C20 as claimed: a generate/edit call is started only while a user is
\* current, and a handler run without a current user sets the message and
\* changes nothing else, the delayed call of a regenerate included.
C20_AuthGate ==
  [][/\ Len(calls') > Len(calls) => currentUser
     /\ (TimerFires /\ ~currentUser)
          => /\ error' = SignInRequired
             /\ UNCHANGED <<isLoading, calls, generatedOutput, inputImage,
                            undoHistory>>]_vars

\* What does hold: a call is started only by a handler of a render that had
\* a user, and a handler of a render without one only sets the message
GateOfTheRender ==
  [][/\ Len(calls') > Len(calls) => (currentUser \/ (TimerFires /\ Head(timers).user))
     /\ DeniedStep
          => /\ error' = SignInRequired
             /\ UNCHANGED <<isLoading, calls, generatedOutput, inputImage,
                            undoHistory>>]_vars

\* --------------------------------------------------------------- SpecMask

\* The largest width and height of a canvas in SpecMask
MaxSide == 2

\* Guided Edit with instructions typed, over a base image whose canvas has
\* any size up to MaxSide and any coverage
InitMask ==
  /\ view = "enhance" /\ isLoading = FALSE /\ error = Null /\ currentUser = TRUE
  /\ inputImage = "a" /\ overlayImage = Null /\ undoHistory = <<>>
  /\ generatedOutput = NoOutput /\ isResultModalOpen = FALSE
  /\ mode = "edit" /\ enhanceStyle = EditorDefaults.enhanceStyle
  /\ editPrompt = "p" /\ intensity = EditorDefaults.intensity
  /\ brushSize = EditorDefaults.brushSize /\ isDrawing = FALSE
  /\ \E w \in 0..MaxSide, h \in 0..MaxSide :
       \E data \in [1..(w * h) -> Alphas] : canvas = Canvas(w, h, data)
  /\ IdleAsync /\ IdleChain /\ IdleRetry /\ IdleService

\* Strokes are drawn and cleared while no call is pending
NextMask ==
  \/ calls = <<>> /\ startDrawing
  \/ \E p \in 1..(MaxSide * MaxSide) : \E a \in Alphas \ {0} : calls = <<>> /\ draw(p, a)
  \/ calls = <<>> /\ stopDrawing
  \/ ClearMask
  \/ Process
  \/ \E i \in 1..Len(calls) : CallFails(i)

SpecMask == InitMask /\ [][NextMask]_vars

\* ----------------------------------------------------------------- C15, C16

\* The mask of the call a step has started
SubmittedMask == calls'[Len(calls')].args.mask

HasCoverage(c) == \E i \in 1..Len(c.data) : c.data[i] > 0

\* C15: a Guided Edit submit derives a mask if and only if some pixel of the
\* canvas has alpha > 0; over a canvas whose pixels all have alpha 0 it
\* derives none, and no mask it derives is all black.
C15_NoCoverageNoMask ==
  [][Process
       => /\ SubmittedMask.present <=> HasCoverage(canvas)
          /\ SubmittedMask.present
               => \E i \in 1..Len(SubmittedMask.data) : SubmittedMask.data[i] # Black]_vars

\* C15 witness: a submit over a canvas without coverage, after a failed one
C15_Witness ==
  /\ canvas.width = 2 /\ canvas.height = 2 /\ ~HasCoverage(canvas)
  /\ Len(calls) = 1 /\ ~calls[1].args.mask.present
  /\ calls[1].args.prompt = "p"

\* C16: the mask derived from a canvas with coverage has the canvas' width
\* and height, is exactly opaque white where alpha > 0 and exactly opaque
\* black where alpha = 0, and is all white over a fully covered canvas.
C16_BinaryMask ==
  [][(Process /\ HasCoverage(canvas))
       => /\ SubmittedMask.present
          /\ SubmittedMask.width = canvas.width
          /\ SubmittedMask.height = canvas.height
          /\ Len(SubmittedMask.data) = canvas.width * canvas.height
          /\ \A i \in 1..Len(canvas.data) :
               SubmittedMask.data[i] = IF canvas.data[i] > 0
                                       THEN <<255, 255, 255, 255>>
                                       ELSE <<0, 0, 0, 255>>
          /\ (\A i \in 1..Len(canvas.data) : canvas.data[i] > 0)
               => \A i \in 1..Len(canvas.data) :
                    SubmittedMask.data[i] = <<255, 255, 255, 255>>]_vars

\* C16 witness: a submitted mask with a white pixel from a faint trace, a
\* white pixel from an opaque stroke and a black pixel
C16_Witness ==
  /\ Len(calls) = 1 /\ calls[1].args.mask.present
  /\ canvas.width = 2 /\ canvas.height = 2
  /\ canvas.data[1] = 1 /\ canvas.data[2] = 255 /\ canvas.data[3] = 0
  /\ calls[1].args.mask.data[1] = White /\ calls[1].args.mask.data[3] = Black

\* --------------------------------------------------------------- SpecEdit

\* Nothing is pending, and the result modal does not cover the page
Idle == calls = <<>> /\ timers = <<>>

Free == Idle /\ ~ModalShown

\* What CreateTab's form holds when Generate Image is pressed in SpecEdit
EditCreateForms ==
  {[prompt |-> "q", style |-> "Brutalism", resolution |-> "1024x1792"]}

\* A user just signed in
InitEdit ==
  /\ view = "create" /\ isLoading = FALSE /\ error = Null /\ currentUser = TRUE
  /\ inputImage = Null /\ overlayImage = Null /\ undoHistory = <<>>
  /\ generatedOutput = NoOutput /\ isResultModalOpen = FALSE
  /\ EditorFresh(FALSE, Null)
  /\ IdleAsync /\ IdleChain /\ IdleRetry /\ IdleService

\* The page is used while nothing is pending and the modal is closed; the
\* base image is replaced or removed while the history is empty
NextEdit ==
  \/ \E v \in {"create", "enhance"} : Free /\ SetView(v)
  \/ \E f \in EditCreateForms : Free /\ Generate(f.prompt, f.style, f.resolution)
  \/ \E m \in {"enhance", "edit"} : Free /\ SetMode(m)
  \/ \E k \in DOMAIN ENHANCE_STYLE_OPTIONS : Free /\ SetEnhanceStyle(k)
  \/ Free /\ SetEditPrompt("p")
  \/ \E n \in {1, 100} : Free /\ SetIntensity(n)
  \/ Free /\ SetOverlayImage("o")
  \/ Free /\ RemoveOverlayImage
  \/ Free /\ startDrawing
  \/ Free /\ draw(1, 255)
  \/ Free /\ stopDrawing
  \/ Free /\ ClearMask
  \/ \E file \in Images : Free /\ undoHistory = <<>> /\ UploadBaseImage(file)
  \/ Free /\ undoHistory = <<>> /\ RemoveBaseImage
  \/ Free /\ Undo
  \/ Free /\ UndoOnEmpty
  \/ Free /\ Process
  \/ \E i \in 1..Len(calls) : \E outputImage \in SpecOutputs : CallSucceeds(i, outputImage)
  \/ \E i \in 1..Len(calls) : CallFails(i)
  \/ Idle /\ OpenModal
  \/ CloseModal
  \/ Idle /\ Regenerate
  \/ TimerFires
  \/ Idle /\ undoHistory = <<>> /\ ContinueEditing
  \/ Idle /\ SendToEnhance

SpecEdit == InitEdit /\ [][NextEdit]_vars

\* ------------------------------------------------------------ C14, C17, C18

\* The arguments of the call a step has started
SubmittedArgs == calls'[Len(calls')].args

\* C14 as claimed: a submit in enhancement mode over a base image starts an
\* edit whose prompt is the selected style's description, whose intensity is
\* 100 whatever the slider, whose mask is absent and whose overlay is the
\* current overlay image.
C14_Original ==
  [][(Process /\ mode = "enhance")
       => /\ Len(calls') = Len(calls) + 1
          /\ SubmittedArgs.prompt = ENHANCE_STYLE_OPTIONS[enhanceStyle]
          /\ SubmittedArgs.intensity = 100
          /\ ~SubmittedArgs.mask.present
          /\ SubmittedArgs.overlay = overlayImage]_vars

\* C14 amended: the same, but the overlay is absent whatever the current
\* overlay image.
C14_EnhancementRequest ==
  [][(Process /\ mode = "enhance")
       => /\ Len(calls') = Len(calls) + 1
          /\ calls'[Len(calls')].type = "enhance"
          /\ calls'[Len(calls')].base = inputImage
          /\ SubmittedArgs.prompt = ENHANCE_STYLE_OPTIONS[enhanceStyle]
          /\ SubmittedArgs.style = enhanceStyle
          /\ SubmittedArgs.intensity = 100
          /\ ~SubmittedArgs.mask.present
          /\ SubmittedArgs.overlay = Null]_vars

\* C14 witness: an enhancement submitted with another style selected, the
\* slider moved, an overlay set and strokes on the canvas
C14_Witness ==
  /\ mode = "enhance" /\ Len(calls) = 1
  /\ calls[1].args.style = "Golden Hour" /\ enhanceStyle = "Golden Hour"
  /\ intensity = 1 /\ overlayImage = "o" /\ HasCoverage(canvas)

\* A step through which the base image changes
BaseChange ==
  \/ \E file \in Images : UploadBaseImage(file)
  \/ RemoveBaseImage
  \/ Undo
  \/ ContinueEditing
  \/ SendToEnhance

\* C17 as claimed: every change of the base image leaves the canvas without
\* coverage, and no call carries a mask drawn over another image than its
\* base image: the mask a regenerate replays was drawn over the input image
\* of the result it replays.
C17_NoStaleMask ==
  /\ [][BaseChange => ~HasCoverage(canvas')]_vars
  /\ [][(TimerFires /\ Len(calls') > Len(calls) /\ SubmittedArgs.mask.present)
          => calls'[Len(calls')].base = Head(timers).output.inputImage]_vars

\* What does hold: every change of the base image leaves the canvas without
\* coverage, and a submit derives its mask from the canvas as it is
CoverageResetOnBaseChange ==
  [][/\ BaseChange => ~HasCoverage(canvas')
     /\ (Process /\ mode = "edit")
          => SubmittedArgs.mask = getMaskAsImageFile(canvas)]_vars

\* The base image has changed over a canvas with strokes
StrokesThenUndo ==
  /\ inputImage = "a" /\ undoHistory = <<>> /\ canvas.mounted /\ ~HasCoverage(canvas)
  /\ mode = "edit" /\ isDrawing /\ generatedOutput.inputImage = "b"
  /\ generatedOutput.maskImage.present

\* C18: Regenerate closes the modal and starts no call itself; its delayed
\* callback, unless turned away for want of a user or of a base image, starts
\* one call of the kind of the result held when Regenerate was pressed, with
\* that result's prompt, style and resolution (create) or prompt, style,
\* intensity, overlay data and mask (enhance), overlay and mask present
\* exactly when the result holds them.
C18_RegenerateReplays ==
  /\ [][Regenerate
          => /\ isResultModalOpen' = FALSE
             /\ calls' = calls
             /\ timers'[Len(timers')].output = generatedOutput]_vars
  /\ [][TimerFires
          => LET t == Head(timers)
                 o == t.output
             IN IF t.user /\ (o.type = "create" \/ t.base # Null)
                THEN /\ Len(calls') = Len(calls) + 1
                     /\ calls'[Len(calls')].type = o.type
                     /\ SubmittedArgs.prompt = o.prompt
                     /\ SubmittedArgs.style = o.style
                     /\ IF o.type = "create"
                        THEN SubmittedArgs.resolution = o.resolution
                        ELSE /\ SubmittedArgs.intensity = o.intensity
                             /\ SubmittedArgs.overlay = o.overlayImage
                             /\ SubmittedArgs.mask = o.maskImage
                ELSE calls' = calls]_vars

\* C18 witness: a guided edit with overlay and mask at intensity 1 is being
\* replayed after the slider was moved and the overlay removed
C18_Witness ==
  /\ Len(calls) = 1 /\ generatedOutput.type = "enhance"
  /\ generatedOutput.intensity = 1 /\ calls[1].args.intensity = 1
  /\ calls[1].args.mask.present /\ calls[1].args.overlay = "o"
  /\ calls[1].args.prompt = "p"
  /\ intensity = 100 /\ overlayImage = Null

\* ---------------------------------------------------------------- C26, C30

\* A step that stores the image a call returned
SuccessStep ==
  \E i \in 1..Len(calls) : \E outputImage \in SpecOutputs : CallSucceeds(i, outputImage)

\* C26: while the result modal is open the result slot holds a result; a held
\* result is never dropped, and the slot is written only by a call that
\* succeeds: closing the modal, undo, continue editing, send to enhance and
\* sign-out leave it as it is.
C26_ResultSlotPersists ==
  /\ [](isResultModalOpen => generatedOutput # NoOutput)
  /\ [][/\ generatedOutput # NoOutput => generatedOutput' # NoOutput
        /\ generatedOutput' # generatedOutput => SuccessStep
        /\ (CloseModal \/ Undo \/ ContinueEditing \/ SendToEnhance \/ SignOut)
             => UNCHANGED generatedOutput]_vars

\* C26 witness: a create result is still held, its image the base image of
\* the Enhance view, with the modal closed and the user signed out, after a
\* regenerate was turned away at the sign-in check
C26_Witness ==
  /\ generatedOutput.type = "create" /\ generatedOutput.outputImage = "a"
  /\ view = "enhance" /\ inputImage = "a" /\ undoHistory = <<>>
  /\ ~isResultModalOpen /\ ~currentUser /\ error = SignInRequired

\* C30: sign-out, a denied sign-in and a sign-in leave the base image, the
\* overlay, the undo history and the result as they are, and while no user is
\* signed in a held result can be opened in the modal through the preview.
C30_SignOutKeepsSession ==
  /\ [][(SignOut \/ SignIn(FALSE) \/ SignIn(TRUE))
          => UNCHANGED <<inputImage, overlayImage, undoHistory, generatedOutput>>]_vars
  /\ []((~currentUser /\ ~isResultModalOpen /\ generatedOutput # NoOutput)
          => ENABLED OpenModal)

\* C30 witness: after a denied sign-in the session still holds a base image,
\* an overlay, a history and a result, and the modal shows the result
C30_Witness ==
  /\ ~currentUser /\ error = NotApproved
  /\ inputImage = "a" /\ overlayImage = "o" /\ undoHistory # <<>>
  /\ generatedOutput # NoOutput /\ isResultModalOpen

\* ------------------------------------- services: the requests, SpecRequest

RESOLUTION_OPTIONS == {"1024x1024", "1024x1792", "1792x1024"}

\* What a request handed to withRetry carries: the prompt in its text, the
\* base image, the mask, the overlay, the intensity named in its text (0 when
\* the text names none) and the size asked for (Null when none is)
Request(prompt, base, mask, overlay, level, size) ==
  [kind |-> "request", prompt |-> prompt, base |-> base, mask |-> mask,
   overlay |-> overlay, intensity |-> level, size |-> size]

\* geminiService.generateImageFromText: contents is the prompt alone
geminiGenerateImageFromText(prompt) ==
  Request(prompt, Null, NoMask, Null, 0, Null)

\* openaiService.generateImageFromText: the JSON body, size '1024x1024'
openaiGenerateImageFromText(prompt) ==
  Request(prompt, Null, NoMask, Null, 0, "1024x1024")

\* geminiService.editImage: the parts pushed with a mask, and without one
geminiEditImage(baseImage, prompt, overlay, level, mask) ==
  IF mask.present
  THEN Request(prompt, baseImage, mask, overlay, 0, Null)
  ELSE Request(prompt, baseImage, NoMask, overlay, level, Null)

\* openaiService.editImage: the form data, size '1024x1024'
openaiEditImage(baseImage, prompt, overlay, level, mask) ==
  Request(prompt, baseImage, mask, Null, 0, "1024x1024")

\* What the provider's function is called with by handleCreateGenerate (the
\* prompt alone) and by handleEnhanceProcess, and what it does up to its call
\* of withRetry: it throws, or has built its request
serviceRequest(svc, o) ==
  LET err == servicePreflight(svc, [hasKey |-> o.hasKey,
                                    name |-> IF o.type = "create"
                                             THEN "generateImageFromText"
                                             ELSE "editImage",
                                    overlay |-> o.args.overlay # Null,
                                    mask |-> o.args.mask.present])
  IN IF err # Null THEN Rejected(err)
     ELSE IF o.type = "create"
     THEN IF svc = "gemini"
          THEN geminiGenerateImageFromText(o.args.prompt)
          ELSE openaiGenerateImageFromText(o.args.prompt)
     ELSE IF svc = "gemini"
          THEN geminiEditImage(o.base, o.args.prompt, o.args.overlay,
                               o.args.intensity, o.args.mask)
          ELSE openaiEditImage(o.base, o.args.prompt, o.args.overlay,
                               o.args.intensity, o.args.mask)

\* The apiCall of handleCreateGenerate runs up to its request
CreateRequest ==
  /\ rpc = "intent" /\ op.type = "create"
  /\ result' = serviceRequest(service, op)
  /\ rpc' = "built"
  /\ UNCHANGED <<service, plan, attempt, invocations, waits, outcome, op>>
  /\ UNCHANGED <<sessionVars, asyncVars, chainVars, editorVars>>

\* The apiCall of handleEnhanceProcess runs up to its request
EditRequest ==
  /\ rpc = "intent" /\ op.type = "enhance"
  /\ result' = serviceRequest(service, op)
  /\ rpc' = "built"
  /\ UNCHANGED <<service, plan, attempt, invocations, waits, outcome, op>>
  /\ UNCHANGED <<sessionVars, asyncVars, chainVars, editorVars>>

\* The masks and the intensities of SpecRequest
RequestMasks == {NoMask, Mask(1, 2, <<White, Black>>)}

RequestIntensities == {1, 50, 100}

\* What handleCreateGenerate and handleEnhanceProcess are called with, under
\* either provider, with the provider's key set or not
Intents ==
  [type : {"create"}, hasKey : BOOLEAN, base : {Null},
   args : {Args(prompt, "Brutalism", resolution, 0, Null, NoMask) :
             prompt \in {"p", "q"}, resolution \in RESOLUTION_OPTIONS}]
  \cup [type : {"enhance"}, hasKey : BOOLEAN, base : Images,
        args : {Args("p", "Guided Edit", Null, level, overlay, mask) :
                  level \in RequestIntensities, overlay \in {Null, "o"},
                  mask \in RequestMasks}]

InitRequest ==
  /\ service \in {"gemini", "openai"}
  /\ op \in Intents
  /\ rpc = "intent" /\ result = Null
  /\ plan = <<>> /\ attempt = 0 /\ invocations = 0 /\ waits = <<>> /\ outcome = Null
  /\ view = "create" /\ isLoading = FALSE /\ error = Null
  /\ currentUser = FALSE
  /\ inputImage = Null /\ overlayImage = Null /\ undoHistory = <<>>
  /\ generatedOutput = NoOutput /\ isResultModalOpen = FALSE
  /\ IdleAsync /\ IdleChain
  /\ EditorFresh(currentUser /\ view = "enhance", inputImage)

NextRequest ==
  \/ CreateRequest
  \/ EditRequest

SpecRequest == InitRequest /\ [][NextRequest]_vars

\* ---------------------------------------------------------------- C22, C23

\* An edit intent has met its provider: a request was built or an error thrown
EditBuilt == rpc = "built" /\ op.type = "enhance"

Sent == result.kind = "request"

\* C22 as claimed: an edit intent either fails with an error before any
\* request, or its request carries the prompt, the base image, the intensity,
\* the overlay if one was supplied and the mask if one was supplied.
C22_NoSilentDrop ==
  (EditBuilt /\ Sent)
    => /\ result.prompt = op.args.prompt
       /\ result.base = op.base
       /\ result.intensity = op.args.intensity
       /\ result.overlay = op.args.overlay
       /\ result.mask = op.args.mask

\* What does hold: a request that is sent carries the prompt, the base image,
\* the overlay and the mask supplied; it carries the intensity when it is
\* Gemini's and no mask was supplied, and no intensity otherwise; an intent
\* that is not sent has failed with one of the errors thrown before a request.
MaskAndOverlayKept ==
  EditBuilt
    => IF Sent
       THEN /\ result.prompt = op.args.prompt
            /\ result.base = op.base
            /\ result.overlay = op.args.overlay
            /\ result.mask = op.args.mask
            /\ result.intensity = IF service = "gemini" /\ ~op.args.mask.present
                                  THEN op.args.intensity ELSE 0
       ELSE /\ service = "openai"
            /\ result.kind = "throw" /\ result.value \in PreflightErrors

\* OpenAI's request for a masked edit at intensity 1 was built
MaskedEditSent ==
  /\ EditBuilt /\ Sent /\ op.args.mask.present /\ op.args.intensity = 1
  /\ op.args.overlay = Null /\ service = "openai"

\* C23 as claimed: a create request carries the prompt, and the chosen
\* resolution is carried by the request of at least one of the two providers.
C23_ResolutionCarried ==
  (rpc = "built" /\ op.type = "create" /\ Sent)
    => /\ result.prompt = op.args.prompt
       /\ \/ serviceRequest("gemini", [op EXCEPT !.hasKey = TRUE]).size = op.args.resolution
          \/ serviceRequest("openai", [op EXCEPT !.hasKey = TRUE]).size = op.args.resolution

\* What does hold: a create request carries the prompt; Gemini's names no
\* size and OpenAI's names 1024x1024, whatever resolution was chosen.
CreateCarriesPromptOnly ==
  (rpc = "built" /\ op.type = "create")
    => IF Sent
       THEN /\ result.prompt = op.args.prompt
            /\ result.size = IF service = "gemini" THEN Null ELSE "1024x1024"
       ELSE service = "openai" /\ ~op.hasKey /\ result = Rejected(NotConfigured)

\* A create request was sent for a resolution other than 1024x1024
OtherResolutionSent ==
  /\ rpc = "built" /\ op.type = "create" /\ Sent
  /\ op.args.resolution = "1792x1024" /\ service = "openai"

\* ---------------------------------------------------------------------- C25

\* A step that sets a new base image
SetsNewBase ==
  \/ \E file \in Images : UploadBaseImage(file)
  \/ Undo
  \/ ContinueEditing
  \/ SendToEnhance

\* C25: upload, undo over a non-empty history, continue editing and send to
\* enhance leave no overlay; continue editing and send to enhance make the
\* result's image the base image, show the Enhance view and close the modal;
\* handleUndo over an empty history changes nothing.
C25_NewBaseClearsOverlay ==
  [][/\ SetsNewBase => overlayImage' = Null
     /\ (ContinueEditing \/ SendToEnhance)
          => /\ inputImage' = generatedOutput.outputImage
             /\ view' = "enhance"
             /\ isResultModalOpen' = FALSE
     /\ UndoOnEmpty => UNCHANGED vars]_vars

\* C25 witness: an edit made with an overlay was continued from: its result
\* is the base image in the Enhance view, the modal is closed, no overlay
C25_Witness ==
  /\ generatedOutput.type = "enhance" /\ generatedOutput.overlayImage = "o"
  /\ inputImage = generatedOutput.outputImage
  /\ undoHistory = <<generatedOutput.inputImage>>
  /\ generatedOutput.inputImage = "b"
  /\ overlayImage = Null /\ view = "enhance" /\ ~isResultModalOpen

\* An undo over a non-empty history has dropped the overlay set before it
OverlaySetThenUndo ==
  /\ inputImage = "a" /\ undoHistory = <<>> /\ overlayImage = Null
  /\ generatedOutput.type = "enhance" /\ generatedOutput.overlayImage = "o"
  /\ generatedOutput.inputImage = "b" /\ ~isResultModalOpen /\ mode = "edit"

\* ---------------------------------------------------------------------- C28

\* The regenerate callback that runs in a step replays an enhance result
ReplaysEdit == TimerFires /\ Head(timers).output.type = "enhance"

\* C28: Regenerate over an enhance result closes the modal and holds the base
\* image current at the click.  Its callback, if that base image is absent,
\* starts no call and sets no message; if it starts a call, the call is over
\* that base image, whatever input image the result recorded, with the
\* result's prompt, overlay and mask.
C28_RegenerateOverCurrentBase ==
  [][/\ (Regenerate /\ generatedOutput.type = "enhance")
          => /\ isResultModalOpen' = FALSE
             /\ timers'[Len(timers')].base = inputImage
     /\ (ReplaysEdit /\ Head(timers).base = Null)
          => UNCHANGED <<calls, error, isLoading, generatedOutput, isResultModalOpen>>
     /\ (ReplaysEdit /\ Len(calls') > Len(calls))
          => /\ calls'[Len(calls')].base = Head(timers).base
             /\ SubmittedArgs.prompt = Head(timers).output.prompt
             /\ SubmittedArgs.overlay = Head(timers).output.overlayImage
             /\ SubmittedArgs.mask = Head(timers).output.maskImage]_vars

\* C28 witness: an edit of base image b, continued from, is being replayed
\* over its own result, the base image now
C28_Witness ==
  /\ Len(calls) = 1 /\ calls[1].type = "enhance"
  /\ generatedOutput.type = "enhance" /\ generatedOutput.inputImage = "b"
  /\ calls[1].base = "a" /\ inputImage = "a" /\ undoHistory = <<"b">>
  /\ calls[1].args.prompt = generatedOutput.prompt
  /\ calls[1].args.mask = generatedOutput.maskImage
  /\ generatedOutput.maskImage.present /\ canvas.mounted
  /\ ~HasCoverage(canvas)

\* A regenerate was clicked over an enhance result with no base image
RegenerateWithoutBase ==
  /\ timers # <<>> /\ Head(timers).output.type = "enhance"
  /\ Head(timers).base = Null /\ error = Null /\ ~isLoading

\* ------------------------------------------------------------- SpecCanvas

\* The brush sizes of SpecCanvas: the slider's minimum and its default
BrushSizes == {5, EditorDefaults.brushSize}

\* The Enhance view just shown to a signed-in user over base image a
InitCanvas ==
  /\ view = "enhance" /\ isLoading = FALSE /\ error = Null /\ currentUser = TRUE
  /\ inputImage = "a" /\ overlayImage = Null /\ undoHistory = <<>>
  /\ generatedOutput = NoOutput /\ isResultModalOpen = FALSE
  /\ EditorFresh(TRUE, inputImage)
  /\ IdleAsync /\ IdleChain /\ IdleRetry /\ IdleService

\* The editor is used while the modal does not cover it, also while a call
\* is pending; the base image is replaced or removed while the history is
\* empty
NextCanvas ==
  \/ \E m \in {"enhance", "edit"} : ~ModalShown /\ SetMode(m)
  \/ ~ModalShown /\ SetEditPrompt("p")
  \/ ~ModalShown /\ SetOverlayImage("o")
  \/ ~ModalShown /\ RemoveOverlayImage
  \/ ~ModalShown /\ startDrawing
  \/ \E p \in 1..(ImageClientSize.width * ImageClientSize.height) :
       ~ModalShown /\ draw(p, 255)
  \/ ~ModalShown /\ stopDrawing
  \/ \E n \in BrushSizes : ~ModalShown /\ SetBrushSize(n)
  \/ ~ModalShown /\ ClearMask
  \/ ~ModalShown /\ WindowResize
  \/ \E file \in Images : ~ModalShown /\ undoHistory = <<>> /\ UploadBaseImage(file)
  \/ ~ModalShown /\ undoHistory = <<>> /\ RemoveBaseImage
  \/ ~ModalShown /\ Undo
  \/ ~ModalShown /\ Process
  \/ \E i \in 1..Len(calls) : \E outputImage \in SpecOutputs : CallSucceeds(i, outputImage)
  \/ \E i \in 1..Len(calls) : CallFails(i)
  \/ CloseModal

SpecCanvas == InitCanvas /\ [][NextCanvas]_vars

\* ----------------------------------------------------------- C21, C24, C29

\* C21: a Guided Edit submit takes the base image, the overlay and the mask
\* derived from the canvas as they are at the submit; no step changes a
\* pending call, whatever is drawn, cleared, uploaded or removed meanwhile;
\* the result stored when the call succeeds records that base image, that
\* overlay and that mask.
C21_InFlightIsolated ==
  [][/\ (Process /\ mode = "edit")
          => /\ calls'[Len(calls')].base = inputImage
             /\ SubmittedArgs.overlay = overlayImage
             /\ SubmittedArgs.mask = getMaskAsImageFile(canvas)
     /\ (Len(calls) = 1 /\ Len(calls') = 1) => calls' = calls
     /\ (\E outputImage \in SpecOutputs : Len(calls) = 1 /\ CallSucceeds(1, outputImage))
          => /\ generatedOutput'.type = calls[1].type
             /\ generatedOutput'.inputImage = calls[1].base
             /\ generatedOutput'.overlayImage = calls[1].args.overlay
             /\ generatedOutput'.maskImage = calls[1].args.mask]_vars

\* C21 witness: the result of an edit of base image a with an overlay and the
\* first pixel masked has just been stored, after the base image was replaced
\* by b and the second pixel drawn while the call was pending
C21_Witness ==
  /\ isResultModalOpen /\ calls = <<>>
  /\ generatedOutput.inputImage = "a" /\ generatedOutput.overlayImage = "o"
  /\ generatedOutput.maskImage = Mask(2, 1, <<White, Black>>)
  /\ inputImage = "b" /\ undoHistory = <<"a">> /\ overlayImage = Null
  /\ canvas.mounted /\ canvas.data = <<0, 255>>

\* A stroke event on the canvas
StrokeEvent ==
  \/ startDrawing
  \/ \E p \in 1..(ImageClientSize.width * ImageClientSize.height) : draw(p, 255)
  \/ stopDrawing

\* C24: while the mode is not 'edit' a stroke event changes neither the
\* canvas nor whether a stroke is under way, so the mask derived after it is
\* the mask derived before it.
C24_StrokesOnlyInEditMode ==
  [][(mode # "edit" /\ StrokeEvent)
       => /\ UNCHANGED <<canvas, isDrawing>>
          /\ getMaskAsImageFile(canvas') = getMaskAsImageFile(canvas)]_vars

\* C24 witness: Enhancement mode over a canvas with one pixel covered, a
\* stroke still marked under way from Guided Edit
C24_Witness ==
  /\ mode = "enhance" /\ canvas.mounted /\ canvas.data = <<255, 0>>
  /\ isDrawing /\ calls = <<>>

\* C29: a change of the brush size leaves the canvas sized to the image and
\* without coverage, so that no mask is derived from it until a stroke is
\* drawn; starting and ending a stroke leave the canvas as it is, and drawing
\* removes no coverage.
C29_BrushSizeClears ==
  [][/\ (\E n \in BrushSizes : SetBrushSize(n))
          => /\ canvas' = BlankCanvas(ImageClientSize.width, ImageClientSize.height)
             /\ getMaskAsImageFile(canvas') = NoMask
     /\ (startDrawing \/ stopDrawing) => canvas' = canvas
     /\ (\E p \in 1..(ImageClientSize.width * ImageClientSize.height) : draw(p, 255))
          => \A i \in 1..Len(canvas.data) : canvas'.data[i] >= canvas.data[i]]_vars

\* C29 witness: after two strokes had covered the canvas and the brush size
\* was changed, a submit carries the pixel drawn since
C29_Witness ==
  /\ brushSize = 5 /\ Len(calls) = 1
  /\ calls[1].args.mask = Mask(2, 1, <<Black, White>>)
  /\ canvas.data = <<0, 255>> /\ ~isDrawing
  /\ generatedOutput.maskImage = Mask(2, 1, <<White, White>>)

\* ---------------------------------------------------------- SpecOperation

\* A promise that has not settled
Pending == [kind |-> "pending", value |-> Null]

\* Generate Image is pressed: handleApiCall awaits the provider's
\* generateImageFromText
GenerateOperation ==
  /\ rpc = "idle" /\ op.name = "generateImageFromText"
  /\ CreateTabShown /\ ~isLoading
  /\ handleCreateGenerate(currentUser, "p", "Brutalism", "1024x1024")
  /\ rpc' = "enter"
  /\ UNCHANGED <<view, currentUser, inputImage, overlayImage, undoHistory,
                 generatedOutput, isResultModalOpen, timers>>
  /\ UNCHANGED <<service, plan, attempt, invocations, waits, outcome>>
  /\ UNCHANGED <<chainVars, serviceVars, editorVars>>

\* Process Image is pressed: handleApiCall awaits the provider's editImage
ProcessOperation ==
  /\ rpc = "idle" /\ op.name = "editImage"
  /\ EnhanceTabShown /\ ~isLoading /\ inputImage # Null
  /\ ~(mode = "edit" /\ editPrompt = "")
  /\ handleProcess
  /\ rpc' = "enter"
  /\ UNCHANGED <<view, currentUser, inputImage, overlayImage, undoHistory,
                 generatedOutput, isResultModalOpen, timers>>
  /\ UNCHANGED <<service, plan, attempt, invocations, waits, outcome>>
  /\ UNCHANGED <<chainVars, serviceVars, editorVars>>

\* The provider's function has returned or thrown: handleApiCall goes on
\* after its await
OperationSettles ==
  /\ rpc = "settled" /\ Len(calls) = 1
  /\ calls' = RemoveAt(calls, 1)
  /\ IF result.kind = "return"
     THEN handleApiCallResolved(calls[1], "a")
     ELSE handleApiCallRejected(calls[1])
  /\ rpc' = "finished"
  /\ UNCHANGED <<view, currentUser, inputImage, overlayImage, undoHistory, timers>>
  /\ UNCHANGED <<service, plan, attempt, invocations, waits, outcome>>
  /\ UNCHANGED <<chainVars, serviceVars, editorVars>>

\* A signed-in user about to generate, or about to submit a Guided Edit with
\* or without overlay and mask, under either provider; plan fixes what the
\* provider's request does at each attempt
InitOperation ==
  /\ service \in {"gemini", "openai"}
  /\ op \in {o \in ServiceCalls : o.name # "refineTextPrompt"}
  /\ plan \in [1..PlanLength -> RequestOutcomes(service)]
  /\ ~op.hasKey =>
       \A i \in 1..PlanLength :
         plan[i] = IF service = "gemini" THEN Rejected("ApiError") ELSE Resolved("not ok")
  /\ attempt = 0 /\ rpc = "idle" /\ invocations = 0
  /\ waits = <<>> /\ outcome = Pending /\ result = Pending
  /\ isLoading = FALSE /\ error = Null /\ currentUser = TRUE
  /\ undoHistory = <<>> /\ generatedOutput = NoOutput /\ isResultModalOpen = FALSE
  /\ enhanceStyle = EditorDefaults.enhanceStyle
  /\ intensity = EditorDefaults.intensity
  /\ brushSize = EditorDefaults.brushSize /\ isDrawing = FALSE
  /\ IF op.name = "generateImageFromText"
     THEN /\ view = "create" /\ inputImage = Null /\ overlayImage = Null
          /\ mode = EditorDefaults.mode /\ editPrompt = EditorDefaults.editPrompt
          /\ canvas = NoCanvas
     ELSE /\ view = "enhance" /\ inputImage = "a"
          /\ overlayImage = (IF op.overlay THEN "o" ELSE Null)
          /\ mode = "edit" /\ editPrompt = "p"
          /\ canvas = IF op.mask
                      THEN Canvas(ImageClientSize.width, ImageClientSize.height, <<255, 0>>)
                      ELSE BlankCanvas(ImageClientSize.width, ImageClientSize.height)
  /\ IdleAsync /\ IdleChain

\* The steps the runtime takes once the operation has started
OperationRuns ==
  \/ ServiceEnter
  \/ RetryLoop
  \/ FnResolves
  \/ FnRejects
  \/ DelayElapses
  \/ ServiceReturn
  \/ OperationSettles

NextOperation ==
  \/ GenerateOperation
  \/ ProcessOperation
  \/ ServiceEnter
  \/ RetryLoop
  \/ FnResolves
  \/ FnRejects
  \/ DelayElapses
  \/ ServiceReturn
  \/ OperationSettles

\* Every attempt settles, every delay elapses and every continuation runs
SpecOperation ==
  InitOperation /\ [][NextOperation]_vars /\ WF_vars(OperationRuns)

\* ---------------------------------------------------------------------- C27

\* C27: a generate or edit that handleApiCall has let through leads to the
\* loading flag being cleared, whether the provider's function returns or
\* throws; withRetry invokes its function at most retries times and waits at
\* most retries - 1 times; the step in which handleApiCall goes on after its
\* await clears the flag.
C27_LoadingEventuallyCleared ==
  /\ isLoading ~> ~isLoading
  /\ [](invocations <= retries /\ Len(waits) <= retries - 1)
  /\ [][OperationSettles => isLoading' = FALSE]_vars

\* C27 witness: an edit has failed after three attempts and two waits, and
\* the flag is cleared
C27_Witness ==
  /\ rpc = "finished" /\ ~isLoading /\ error = ProviderError
  /\ invocations = 3 /\ Len(waits) = 2 /\ op.name = "editImage"

====
